---- MODULE Spec2Model ----
(***************************************************************************)
(* Orchestration core of the prior-authorization pipeline:                 *)
(*   AutoPADeterminator.run      src/pipeline/autoDetermination/run.py     *)
(*   AgenticRAG.run              src/pipeline/agenticRag/run.py            *)
(*   ClinicalDataExtractor       src/pipeline/clinicalExtractor/run.py     *)
(*   PAProcessingPipeline.run    src/pipeline/paprocessing/run.py          *)
(* The LLM client, the search client, the blob store and the summarize     *)
(* callback are collaborators: what they answer is chosen by the           *)
(* environment, what the code does with the answer is the model.           *)
(***************************************************************************)
EXTENDS Integers, Sequences, FiniteSets, TLC

VARIABLES
    \* ---- AutoPADeterminator.run ----
    d_pc,                       \* position in run
    use_o1_arg,                 \* the use_o1 argument as passed by the caller
    use_o1,                     \* the local use_o1 (cleared on primary failure)
    attempt,                    \* loop variable of the 4o retry loop
    system_message_content,     \* local of run: "unbound" until assigned
    api_response_determination, \* local of run
    final_response,             \* what run returned (response text)
    d_outcome,                  \* "running" | "returned" | "raised"
    d_exc,                      \* exception that left run
    d_model,                    \* client of the completion in flight: "o1" | "4o"
    o1_script,                  \* answers of the o1 client, call by call
    gpt4o_script,               \* answers of the 4o client, call by call
    summarize_script,           \* answer of summarize_policy_callback
    o1_calls,                   \* prompts received by the o1 client
    gpt4o_calls,                \* prompts received by the 4o client
    summarize_calls,            \* texts received by summarize_policy_callback
    o1_failed,                  \* the primary attempt ended in an exception
    fail_log,                   \* exceptions of the 4o attempts, in order
    \* ---- AgenticRAG.run ----
    r_pc,                       \* position in run
    max_retries,                \* the max_retries argument
    r_attempt,                  \* attempts ended so far (the loop index)
    expanded_query,             \* local of run
    search_results,             \* local of run
    evaluation,                 \* local of run
    r_result,                   \* the dictionary run returned
    r_outcome,                  \* "running" | "returned" | "raised"
    expand_calls,               \* calls of expand_query
    search_calls,               \* calls of retrieve_policies
    eval_calls,                 \* calls of evaluate_results
    r_log,                      \* per attempt: how it ended, what it had obtained
    \* ---- ClinicalDataExtractor.validate_with_field_level_correction ----
    v_pc,                       \* position in the method
    model_class,                \* the model_class argument
    v_index,                    \* index in model_fields of the next field
    validated_data,             \* the dictionary built by the loop (in field order)
    v_instance,                 \* the instance returned
    v_outcome,                  \* "running" | "returned" | "raised"
    v_substituted,              \* fields whose value was replaced by a default
    \* ---- ClinicalDataExtractor.run ----
    e_pc,                       \* position of run: "idle" | "gather" | "done"
    t_pc,                       \* per task: "created" | "awaiting" | "done"
    t_answer,                   \* per task: what its LLM call handed back
    t_return,                   \* per task: the first element of its return value
    e_result,                   \* the dictionary run returned
    history,                    \* conversation-history list objects, by identity
    \* ---- PAProcessingPipeline.run ----
    p_pc,                       \* position in run
    uploaded_files,             \* the uploaded_files argument
    caseId,                     \* the caseId argument ("None" when not given)
    p_use_o1,                   \* the use_o1 argument
    self_caseId,                \* self.caseId
    results,                    \* self.results[self.caseId]
    temp_dir,                   \* self.temp_dir on disk: "exists" | "removed"
    image_files,                \* files whose page images are in temp_dir
    agenticrag_results,         \* local of run
    policy_text,                \* local of run
    p_exc,                      \* exception in flight in run ("none" if none)
    p_outcome,                  \* "running" | "returned" | "raised"
    p_events,                   \* stage starts, exceptions, failure logs, finally steps
    cleanup_calls,              \* calls of cleanup_temp_dir
    store_calls,                \* calls of store_output
    stored,                     \* documents upserted by store_output
    p_calls,                    \* arguments run handed to retrieval and determination
    \* ---- CosmosDBMongoCoreManager ----
    collection,                 \* the documents of self.collection
    last_stored,                \* per case id, the data_item last persisted
    db_pc,                      \* the call made last: "none" | "store" | "read"
    read_result,                \* what the read_document call just made returned
    \* ---- AzureOpenAIManager: one conversation history through a chain of calls ----
    conversation_history,       \* the list object handed to the client
    history_before,             \* its content when the call made last began
    llm_call,                   \* the call made last: function, system message, answer
    \* ---- CaseManager.evaluate_similarity ----
    c_pc,                       \* "idle" | "entry" | "evaluated"
    extracted,                  \* the extracted argument
    expected,                   \* the expected argument
    threshold,                  \* the threshold argument
    similarity_scores,          \* of the dictionary returned
    detailed_comparison,        \* of the dictionary returned
    pass_status                 \* "pass" of the dictionary returned

detVars == <<d_pc, use_o1_arg, use_o1, attempt, system_message_content,
             api_response_determination, final_response, d_outcome, d_exc,
             d_model, o1_script, gpt4o_script, summarize_script, o1_calls,
             gpt4o_calls, summarize_calls, o1_failed, fail_log>>

ragVars == <<r_pc, max_retries, r_attempt, expanded_query, search_results,
             evaluation, r_result, r_outcome, expand_calls, search_calls,
             eval_calls, r_log>>

valVars == <<v_pc, model_class, v_index, validated_data, v_instance, v_outcome,
             v_substituted>>

extVars == <<e_pc, t_pc, t_answer, t_return, e_result, history>>

\* The pipeline's variables but results, which the summarize callback writes.
pipeRest == <<p_pc, uploaded_files, caseId, p_use_o1, self_caseId, temp_dir,
              image_files, agenticrag_results, policy_text, p_exc, p_outcome,
              p_events, cleanup_calls, store_calls, stored, p_calls>>

pipeVars == <<results, pipeRest>>

dbVars == <<collection, last_stored, db_pc, read_result>>

llmVars == <<conversation_history, history_before, llm_call>>

caseVars == <<c_pc, extracted, expected, threshold, similarity_scores,
              detailed_comparison, pass_status>>

vars == <<detVars, ragVars, valVars, extVars, pipeVars, dbVars, llmVars, caseVars>>

\* What each component leaves alone.
restDet == <<ragVars, valVars, extVars, pipeVars, dbVars, llmVars, caseVars>>
restRag == <<detVars, valVars, extVars, pipeVars, dbVars, llmVars, caseVars>>
restVal == <<detVars, ragVars, extVars, pipeVars, dbVars, llmVars, caseVars>>
restExt == <<detVars, ragVars, valVars, pipeVars, dbVars, llmVars, caseVars>>
restDb == <<detVars, ragVars, valVars, extVars, pipeVars, llmVars, caseVars>>
restLlm == <<detVars, ragVars, valVars, extVars, pipeVars, dbVars, caseVars>>
restCase == <<detVars, ragVars, valVars, extVars, pipeVars, dbVars, llmVars>>

-----------------------------------------------------------------------------
(* The LLM client as seen by its callers.  generate_chat_response and      *)
(* generate_chat_response_o1 return a dict on success, the string          *)
(* "maximum context length" on a context overflow and None on any other    *)
(* API error; an injected client may also raise.                           *)
LLMOutcome == {"ok", "overflow", "none", "throw"}

Unset == [kind |-> "unset", model |-> "-", call |-> 0]
NoneResp == [kind |-> "none", model |-> "-", call |-> 0]
Sentinel == [kind |-> "sentinel", model |-> "-", call |-> 0]
DictResp(m, n) == [kind |-> "dict", model |-> m, call |-> n]

\* What a client call hands back for an answer o (o # "throw").
ApiResponse(o, m, n) ==
    CASE o = "ok" -> DictResp(m, n)
      [] o = "overflow" -> Sentinel
      [] OTHER -> NoneResp

\* PromptManager.create_prompt_pa: the template is chosen by use_o1.
create_prompt_pa(policy, flag) ==
    [template |-> IF flag THEN "prior_auth_o1_user_prompt"
                          ELSE "prior_auth_user_prompt",
     policy |-> policy]

\* user_prompt_pa = self.prompt_manager.create_prompt_pa(patient_info,
\* physician_info, clinical_info, policy_text, use_o1): built once, on entry,
\* and passed as query to the o1 client and to the 4o client alike.
user_prompt_pa == create_prompt_pa("policy_text", use_o1_arg)

\* max_retries of the 4o loop.
DetMaxRetries == 2

Script(n) == [1..n -> LLMOutcome]

At(script, i) == IF i \in DOMAIN script THEN script[i] ELSE "throw"

-----------------------------------------------------------------------------
(* AutoPADeterminator.run *)

DetIdle ==
    /\ d_pc = "idle"
    /\ use_o1_arg = FALSE /\ use_o1 = FALSE /\ attempt = 0
    /\ system_message_content = "unbound"
    /\ api_response_determination = Unset
    /\ final_response = Unset
    /\ d_outcome = "running" /\ d_exc = "none" /\ d_model = "-"
    /\ o1_script = <<>> /\ gpt4o_script = <<>> /\ summarize_script = "ok"
    /\ o1_calls = <<>> /\ gpt4o_calls = <<>> /\ summarize_calls = <<>>
    /\ o1_failed = FALSE /\ fail_log = <<>>

\* State at entry of run(..., use_o1 = flag) with the collaborators' answers fixed.
DetEntry(flag, s1, s4, sc) ==
    /\ d_pc = "if_o1"
    /\ use_o1_arg = flag /\ use_o1 = flag /\ attempt = 0
    /\ system_message_content = "unbound"
    /\ api_response_determination = Unset
    /\ final_response = Unset
    /\ d_outcome = "running" /\ d_exc = "none" /\ d_model = "-"
    /\ o1_script = s1 /\ gpt4o_script = s4 /\ summarize_script = sc
    /\ o1_calls = <<>> /\ gpt4o_calls = <<>> /\ summarize_calls = <<>>
    /\ o1_failed = FALSE /\ fail_log = <<>>

DetInit ==
    \E flag \in BOOLEAN, s1 \in Script(2), s4 \in Script(2 * DetMaxRetries),
       sc \in {"ok", "throw"} : DetEntry(flag, s1, s4, sc)

\* An exception leaves run.
DetRaise(e) ==
    /\ d_pc' = "done"
    /\ d_outcome' = "raised"
    /\ d_exc' = e

\* except Exception of the primary attempt: use_o1 = False.
PrimaryFail ==
    /\ use_o1' = FALSE
    /\ o1_failed' = TRUE
    /\ d_pc' = "if_4o"
    /\ UNCHANGED <<attempt, d_outcome, d_exc, fail_log>>

\* Mutant: the handler retries once more than max_retries allows.
SecondaryFailOneMore(e) ==
    /\ fail_log' = Append(fail_log, e)
    /\ IF attempt <= DetMaxRetries
         THEN /\ attempt' = attempt + 1
              /\ d_pc' = "try_4o"
              /\ UNCHANGED <<d_outcome, d_exc>>
         ELSE /\ DetRaise(e)
              /\ UNCHANGED attempt
    /\ UNCHANGED <<use_o1, o1_failed>>

\* except Exception of the 4o loop: retry while attempt < max_retries, else raise e.
SecondaryFail(e) ==
    /\ fail_log' = Append(fail_log, e)
    /\ IF attempt < DetMaxRetries
         THEN /\ attempt' = attempt + 1
              /\ d_pc' = "try_4o"
              /\ UNCHANGED <<d_outcome, d_exc>>
         ELSE /\ DetRaise(e)
              /\ UNCHANGED attempt
    /\ UNCHANGED <<use_o1, o1_failed>>

\* An exception in the completion chain of the model in flight.
ChainFail(e) == IF d_model = "o1" THEN PrimaryFail ELSE SecondaryFail(e)

\* if use_o1: ... generate_response_with_model(self.azure_openai_client_o1, ...)
DetIfO1 ==
    /\ d_pc = "if_o1"
    /\ UNCHANGED restDet
    /\ IF use_o1
         THEN /\ d_pc' = "call_o1" /\ d_model' = "o1"
         ELSE /\ d_pc' = "if_4o" /\ d_model' = d_model
    /\ UNCHANGED <<use_o1_arg, use_o1, attempt, system_message_content,
                   api_response_determination, final_response, d_outcome,
                   d_exc, o1_script, gpt4o_script, summarize_script,
                   o1_calls, gpt4o_calls, summarize_calls, o1_failed, fail_log>>

\* generate_response_with_model: the first completion of the o1 client.
DetO1Call ==
    /\ d_pc = "call_o1"
    /\ UNCHANGED restDet
    /\ LET n == Len(o1_calls) + 1
           o == At(o1_script, n)
       IN /\ o1_calls' = Append(o1_calls, user_prompt_pa)
          /\ CASE o = "throw" ->
                    /\ PrimaryFail
                    /\ UNCHANGED api_response_determination
               [] o = "overflow" ->
                    /\ d_pc' = "summarize"
                    /\ UNCHANGED <<api_response_determination, use_o1, attempt,
                                   d_outcome, d_exc, fail_log, o1_failed>>
               [] OTHER ->
                    /\ api_response_determination' = ApiResponse(o, "o1", n)
                    /\ d_pc' = "if_4o"
                    /\ UNCHANGED <<use_o1, attempt, d_outcome, d_exc, fail_log,
                                   o1_failed>>
    /\ UNCHANGED <<use_o1_arg, system_message_content, final_response, d_model,
                   o1_script, gpt4o_script, summarize_script, gpt4o_calls,
                   summarize_calls>>

\* if not use_o1: for attempt in range(1, max_retries + 1)
DetIf4o ==
    /\ d_pc = "if_4o"
    /\ UNCHANGED restDet
    /\ IF ~use_o1
         THEN /\ attempt' = 1 /\ d_pc' = "try_4o" /\ d_model' = "4o"
         ELSE /\ attempt' = attempt /\ d_pc' = "final" /\ d_model' = d_model
    /\ UNCHANGED <<use_o1_arg, use_o1, system_message_content,
                   api_response_determination, final_response, d_outcome,
                   d_exc, o1_script, gpt4o_script, summarize_script,
                   o1_calls, gpt4o_calls, summarize_calls, o1_failed, fail_log>>

\* The value read by "system_message_content = system_message_content or ...":
\* the name is a local of run that nothing assigns before this line.
ReadSystemMessage == system_message_content

\* Body of the try of one 4o attempt up to the first completion: the read of
\* system_message_content, then generate_chat_response(query=user_prompt_pa).
Det4oAttempt ==
    /\ d_pc = "try_4o"
    /\ UNCHANGED restDet
    /\ IF ReadSystemMessage = "unbound"
         THEN /\ SecondaryFail("UnboundLocalError")
              /\ UNCHANGED <<system_message_content, gpt4o_calls,
                             api_response_determination>>
         ELSE LET n == Len(gpt4o_calls) + 1
                  o == At(gpt4o_script, n)
              IN /\ system_message_content' = "prior_auth_system_prompt"
                 /\ gpt4o_calls' = Append(gpt4o_calls,
                                      user_prompt_pa)
                 /\ CASE o = "throw" ->
                           /\ SecondaryFail("StubError")
                           /\ UNCHANGED api_response_determination
                      [] o = "overflow" ->
                           /\ d_pc' = "summarize"
                           /\ UNCHANGED <<api_response_determination, use_o1,
                                          attempt, d_outcome, d_exc, fail_log,
                                          o1_failed>>
                      [] OTHER ->
                           /\ api_response_determination' = ApiResponse(o, "4o", n)
                           /\ d_pc' = "final"
                           /\ UNCHANGED <<use_o1, attempt, d_outcome, d_exc,
                                          fail_log, o1_failed>>
    /\ UNCHANGED <<use_o1_arg, final_response, d_model, o1_script, gpt4o_script,
                   summarize_script, o1_calls, summarize_calls>>

\* dict.update of one key, as log_output and upload_files_to_blob do it.
Put(d, k, v) == [x \in DOMAIN d \cup {k} |-> IF x = k THEN v ELSE d[x]]

\* The callback the pipeline hands to run: summary = await summarize_policy(text),
\* then log_output({"summary_policy": summary}).  A caller other than the
\* pipeline passes a callback of its own, which writes nothing here.
summarize_policy_callback ==
    IF p_pc = "determining" /\ summarize_script = "ok"
      THEN results' = Put(results, "summary_policy", "summarized_policy")
      ELSE UNCHANGED results

\* if api_response == "maximum context length":
\*     summarized_policy = await summarize_policy_callback(policy_text)
DetSummarize ==
    /\ d_pc = "summarize"
    /\ UNCHANGED <<ragVars, valVars, dbVars, llmVars, caseVars, extVars, pipeRest>>
    /\ summarize_policy_callback
    /\ summarize_calls' = Append(summarize_calls, "policy_text")
    /\ IF summarize_script = "throw"
         THEN ChainFail("CallbackError")
         ELSE /\ d_pc' = "retry"
              /\ UNCHANGED <<use_o1, attempt, d_outcome, d_exc, fail_log, o1_failed>>
    /\ UNCHANGED <<use_o1_arg, system_message_content, api_response_determination,
                   final_response, d_model, o1_script, gpt4o_script,
                   summarize_script, o1_calls, gpt4o_calls>>

\* Mutant: a second overflow is summarized and retried again.
AfterSubRetryAgain(o) ==
    IF o = "overflow" THEN "summarize"
    ELSE IF d_model = "o1" THEN "if_4o" ELSE "final"

\* Whatever the second completion answered, it is what the chain is left with:
\* return api_response (o1), break (4o).
AfterSubRetry(o) == IF d_model = "o1" THEN "if_4o" ELSE "final"

\* The completion with the summarized prompt, by the same client.
DetRetry ==
    /\ d_pc = "retry"
    /\ UNCHANGED restDet
    /\ LET calls == IF d_model = "o1" THEN o1_calls ELSE gpt4o_calls
           n == Len(calls) + 1
           o == At(IF d_model = "o1" THEN o1_script ELSE gpt4o_script, n)
           sent == Append(calls, create_prompt_pa("summarized_policy", use_o1))
       IN /\ IF d_model = "o1"
               THEN o1_calls' = sent /\ UNCHANGED gpt4o_calls
               ELSE gpt4o_calls' = sent /\ UNCHANGED o1_calls
          /\ IF o = "throw"
               THEN /\ ChainFail("StubError")
                    /\ UNCHANGED api_response_determination
               ELSE /\ api_response_determination' = ApiResponse(o, d_model, n)
                    /\ d_pc' = AfterSubRetry(o)
                    /\ UNCHANGED <<use_o1, attempt, d_outcome, d_exc, fail_log,
                                   o1_failed>>
    /\ UNCHANGED <<use_o1_arg, system_message_content, final_response, d_model,
                   o1_script, gpt4o_script, summarize_script, summarize_calls>>

\* final_response = api_response_determination["response"]; return
DetFinal ==
    /\ d_pc = "final"
    /\ UNCHANGED restDet
    /\ IF api_response_determination.kind = "dict"
         THEN /\ final_response' = api_response_determination
              /\ d_outcome' = "returned"
              /\ d_pc' = "done"
              /\ UNCHANGED d_exc
         ELSE /\ DetRaise("TypeError")
              /\ UNCHANGED final_response
    /\ UNCHANGED <<use_o1_arg, use_o1, attempt, system_message_content,
                   api_response_determination, d_model, o1_script, gpt4o_script,
                   summarize_script, o1_calls, gpt4o_calls, summarize_calls,
                   o1_failed, fail_log>>

DetNext ==
    \/ DetIfO1
    \/ DetO1Call
    \/ DetIf4o
    \/ Det4oAttempt
    \/ DetSummarize
    \/ DetRetry
    \/ DetFinal

-----------------------------------------------------------------------------
(* AgenticRAG.run *)

\* Largest max_retries argument explored.
MaxRetriesBound == 3

Queries == {"q1", "q2"}
PolicyLists == {<<>>, <<"p1">>, <<"p2", "p1">>}

\* Python None for the evaluation, and an evaluation parsed from the LLM's JSON:
\* the "retry" key may be absent, the "policies" key may be absent.
NoneEval == [retry |-> "none", has_policies |-> FALSE, policies |-> <<>>]
JsonEvals ==
    {[retry |-> r, has_policies |-> TRUE, policies |-> p] :
        r \in {"true", "false", "absent"}, p \in PolicyLists}
    \cup {[retry |-> r, has_policies |-> FALSE, policies |-> <<>>] :
        r \in {"true", "false"}}

\* What generate_chat_response(response_format="json_object") hands back:
\* a dict with parsed JSON, a dict with unparsed text, the overflow string,
\* None, or (an injected client) an exception.
ExpandAnswers ==
    {[kind |-> "json", query |-> q] : q \in Queries \cup {""}}
    \cup {[kind |-> k, query |-> ""] : k \in {"text", "overflow", "none", "throw"}}
EvalAnswers ==
    {[kind |-> "json", eval |-> e] : e \in JsonEvals}
    \cup {[kind |-> k, eval |-> NoneEval] : k \in {"text", "overflow", "none", "throw"}}
SearchAnswers == {"hits", "empty", "throw"}

\* expand_query: response.get("response", {}).get("optimized_query", "");
\* .get on None or on a string raises AttributeError.
expand_query(a) ==
    IF a.kind = "json" THEN [exc |-> FALSE, value |-> a.query]
                       ELSE [exc |-> TRUE, value |-> ""]

\* retrieve_policies: the formatted string of the hits ("" when there are none).
retrieve_policies(s) ==
    CASE s = "hits" -> [exc |-> FALSE, value |-> "formatted results"]
      [] s = "empty" -> [exc |-> FALSE, value |-> ""]
      [] OTHER -> [exc |-> TRUE, value |-> ""]

\* evaluate_results: response.get("response", {...}); a dict always has the key.
\* A text response is returned as the string, which run cannot index by "retry".
evaluate_results(a) ==
    IF a.kind = "json" THEN [exc |-> FALSE, value |-> a.eval]
                       ELSE [exc |-> TRUE, value |-> NoneEval]

NullResult == [query |-> "None", policies |-> <<>>, evaluation |-> NoneEval]

\* {"query": expanded_query, "policies": evaluation.get("policies", []), ...}
ResultOf(q, e) ==
    [query |-> q,
     policies |-> IF e.has_policies THEN e.policies ELSE <<>>,
     evaluation |-> e]

\* Mutant: the retry flag read the wrong way round.
AcceptsInverted(e) == e.retry = "true"

\* if not evaluation["retry"]
Accepts(e) == e.retry = "false"

RagIdle ==
    /\ r_pc = "idle" /\ max_retries = 0 /\ r_attempt = 0
    /\ expanded_query = "None" /\ search_results = "None"
    /\ evaluation = NoneEval /\ r_result = NullResult
    /\ r_outcome = "running"
    /\ expand_calls = 0 /\ search_calls = 0 /\ eval_calls = 0
    /\ r_log = <<>>

\* State at entry of run(clinical_info, max_retries = n).
RagEntry(n) ==
    /\ r_pc = "for" /\ max_retries = n /\ r_attempt = 0
    /\ expanded_query = "None" /\ search_results = "None"
    /\ evaluation = NoneEval /\ r_result = NullResult
    /\ r_outcome = "running"
    /\ expand_calls = 0 /\ search_calls = 0 /\ eval_calls = 0
    /\ r_log = <<>>

\* continue / fall off the end of the loop body: the next iteration.
EndAttempt(kind, q, e) ==
    /\ r_log' = Append(r_log, [end |-> kind, query |-> q, evaluation |-> e])
    /\ r_attempt' = r_attempt + 1
    /\ r_pc' = "for"
    /\ UNCHANGED <<r_result, r_outcome>>

\* Mutant: the exception of an attempt leaves run.
RaiseAttempt(kind, q, e) ==
    /\ r_log' = Append(r_log, [end |-> kind, query |-> q, evaluation |-> e])
    /\ r_outcome' = "raised"
    /\ r_pc' = "done"
    /\ UNCHANGED <<r_attempt, r_result>>

\* except Exception as e: log, continue.
CatchAttempt(kind, q, e) == EndAttempt(kind, q, e)

\* Mutant: one iteration too many.
LoopConditionInclusive == r_attempt <= max_retries

\* for attempt in range(max_retries): ...; after the loop, the empty result.
LoopCondition == r_attempt < max_retries

RagFor ==
    /\ r_pc = "for"
    /\ UNCHANGED restRag
    /\ IF LoopCondition
         THEN /\ r_pc' = "expand"
              /\ UNCHANGED <<r_result, r_outcome>>
         ELSE /\ r_result' = NullResult
              /\ r_outcome' = "returned"
              /\ r_pc' = "done"
    /\ UNCHANGED <<max_retries, r_attempt, expanded_query, search_results,
                   evaluation, expand_calls, search_calls, eval_calls, r_log>>

\* Step 1: expanded_query = await self.expand_query(clinical_info)
RagExpand ==
    /\ r_pc = "expand"
    /\ UNCHANGED restRag
    /\ expand_calls' = expand_calls + 1
    /\ \E a \in ExpandAnswers :
         LET res == expand_query(a) IN
         IF res.exc
           THEN /\ CatchAttempt("expand_exc", "None", NoneEval)
                /\ UNCHANGED expanded_query
           ELSE /\ expanded_query' = res.value
                /\ IF res.value = ""
                     THEN EndAttempt("expand_empty", "", NoneEval)
                     ELSE /\ r_pc' = "retrieve"
                          /\ UNCHANGED <<r_attempt, r_result, r_outcome, r_log>>
    /\ UNCHANGED <<max_retries, search_results, evaluation, search_calls, eval_calls>>

\* Step 2: search_results = self.retrieve_policies(expanded_query)
RagRetrieve ==
    /\ r_pc = "retrieve"
    /\ UNCHANGED restRag
    /\ search_calls' = search_calls + 1
    /\ \E s \in SearchAnswers :
         LET res == retrieve_policies(s) IN
         IF res.exc
           THEN /\ CatchAttempt("search_exc", expanded_query, NoneEval)
                /\ UNCHANGED search_results
           ELSE /\ search_results' = res.value
                /\ IF res.value = ""
                     THEN EndAttempt("search_empty", expanded_query, NoneEval)
                     ELSE /\ r_pc' = "evaluate"
                          /\ UNCHANGED <<r_attempt, r_result, r_outcome, r_log>>
    /\ UNCHANGED <<max_retries, expanded_query, evaluation, expand_calls, eval_calls>>

\* Step 3: evaluation = await self.evaluate_results(...); if not evaluation["retry"]
RagEvaluate ==
    /\ r_pc = "evaluate"
    /\ UNCHANGED restRag
    /\ eval_calls' = eval_calls + 1
    /\ \E a \in EvalAnswers :
         LET res == evaluate_results(a) IN
         IF res.exc
           THEN /\ CatchAttempt("eval_exc", expanded_query, NoneEval)
                /\ UNCHANGED evaluation
           ELSE /\ evaluation' = res.value
                /\ IF res.value.retry = "absent"
                     THEN CatchAttempt("eval_exc", expanded_query, res.value)
                     ELSE IF Accepts(res.value)
                       THEN /\ r_log' = Append(r_log, [end |-> "returned",
                                             query |-> expanded_query,
                                             evaluation |-> res.value])
                            /\ r_result' = ResultOf(expanded_query, res.value)
                            /\ r_outcome' = "returned"
                            /\ r_pc' = "done"
                            /\ UNCHANGED r_attempt
                       ELSE EndAttempt("eval_retry", expanded_query, res.value)
    /\ UNCHANGED <<max_retries, expanded_query, search_results, expand_calls,
                   search_calls>>

RagNext ==
    \/ RagFor
    \/ RagExpand
    \/ RagRetrieve
    \/ RagEvaluate

-----------------------------------------------------------------------------
(* ClinicalDataExtractor.validate_with_field_level_correction over the      *)
(* pydantic models of promptEngineering/models.py.                          *)

ModelClasses == {"PatientInformation", "PhysicianInformation", "ClinicalInformation"}

StrField(n) ==
    [name |-> n, type |-> "str", default |-> "Not provided", default_factory |-> "None"]
ModelField(n, t) ==
    [name |-> n, type |-> t, default |-> "PydanticUndefined", default_factory |-> t]

\* model_class.model_fields, in declaration order.
model_fields(c) ==
    CASE c = "PatientInformation" ->
           <<StrField("patient_name"), StrField("patient_date_of_birth"),
             StrField("patient_id"), StrField("patient_address"),
             StrField("patient_phone_number")>>
      [] c = "PhysicianInformation" ->
           <<StrField("physician_name"), StrField("specialty"),
             ModelField("physician_contact", "PhysicianContact")>>
      [] OTHER ->
           <<StrField("diagnosis"), StrField("icd_10_code"),
             StrField("prior_treatments_and_results"),
             StrField("specific_drugs_taken_and_failures"),
             StrField("alternative_drugs_required"),
             StrField("relevant_lab_results_or_imaging"),
             StrField("symptom_severity_and_impact"),
             StrField("prognosis_and_risk_if_not_approved"),
             StrField("clinical_rationale_for_urgency"),
             ModelField("treatment_request", "TreatmentRequest")>>

\* The fields of the nested models (all of them str with default "Not provided").
SubFields(t) ==
    CASE t = "PhysicianContact" -> <<"office_phone", "fax", "office_address">>
      [] t = "TreatmentRequest" ->
           <<"name_of_medication_or_procedure", "code_of_medication_or_procedure",
             "dosage", "duration", "rationale", "presumed_eligibility">>
      [] OTHER -> <<>>

\* Values: Python None, an int, a str, a dict (per key of the nested model:
\* "absent", "null", "int" or "str"), a model instance, PydanticUndefined.
PyNone == [kind |-> "None", text |-> "", sub |-> <<>>]
PyInt == [kind |-> "int", text |-> "", sub |-> <<>>]
PyStr(x) == [kind |-> "str", text |-> x, sub |-> <<>>]
PyDict(m) == [kind |-> "dict", text |-> "", sub |-> m]
PyModel(m) == [kind |-> "model", text |-> "", sub |-> m]
PydanticUndefined == [kind |-> "PydanticUndefined", text |-> "", sub |-> <<>>]

\* data.get(expected_alias, None) for a field: an absent key reads as None.
RawValues(f) ==
    IF f.type = "str"
      THEN {PyNone, PyInt, PyStr("extracted")}
      ELSE {PyNone, PyInt, PyStr("extracted")}
           \cup {PyDict(m) : m \in [1..Len(SubFields(f.type)) ->
                                       {"absent", "null", "int", "str"}]}

\* pydantic: does model_class(**{field_name: value}) validate?  A str field
\* takes a str; a model field takes a dict whose present keys are all str.
Validates(f, v) ==
    IF f.type = "str"
      THEN v.kind = "str"
      ELSE v.kind = "dict" /\ \A i \in DOMAIN v.sub : v.sub[i] \in {"absent", "str"}

\* getattr(validated_instance, field_name) after a successful validation.
ValidatedValue(f, v) ==
    IF f.type = "str"
      THEN v
      ELSE PyModel([i \in DOMAIN v.sub |->
                      IF v.sub[i] = "absent" THEN "Not provided" ELSE "extracted"])

\* default_factory(): the nested model with all its defaults.
FactoryResult(t) == PyModel([i \in 1..Len(SubFields(t)) |-> "Not provided"])

\* The field's declared default, as model_field.default holds it.
DeclaredDefault(f) ==
    CASE f.default = "PydanticUndefined" -> PydanticUndefined
      [] f.default = "None" -> PyNone
      [] OTHER -> PyStr(f.default)

\* Mutant: the substitute is chosen by type alone.
DefaultValueByType(f) == IF f.type = "str" THEN PyStr("Not provided") ELSE PyNone

\* The except branch: default, else default_factory(), else by type.
\* (model_field.outer_type_ does not exist on a pydantic v2 FieldInfo; no
\* declared field reaches that branch.)
DefaultValue(f) ==
    IF f.default # "None"
      THEN DeclaredDefault(f)
      ELSE IF f.default_factory # "None"
             THEN FactoryResult(f.default_factory)
             ELSE IF f.type = "str" THEN PyStr("Not provided") ELSE PyNone

\* pydantic, model_class(**validated_data): PydanticUndefined given for a field
\* makes the field take its default (default_factory()).
ConstructField(f, v) ==
    IF v.kind = "PydanticUndefined"
      THEN IF f.default_factory # "None" THEN FactoryResult(f.default_factory)
                                         ELSE DeclaredDefault(f)
      ELSE v

ConstructOk(f, v) ==
    \/ v.kind = "PydanticUndefined"
    \/ f.type = "str" /\ v.kind = "str"
    \/ f.type # "str" /\ v.kind = "model"

ValIdle ==
    /\ v_pc = "idle" /\ model_class = "PatientInformation" /\ v_index = 1
    /\ validated_data = <<>> /\ v_instance = <<>>
    /\ v_outcome = "running" /\ v_substituted = 0

ValEntry(c) ==
    /\ v_pc = "loop" /\ model_class = c /\ v_index = 1
    /\ validated_data = <<>> /\ v_instance = <<>>
    /\ v_outcome = "running" /\ v_substituted = 0

\* One iteration of "for field_name, model_field in model_class.model_fields.items()".
ValidateField ==
    /\ v_pc = "loop"
    /\ UNCHANGED restVal
    /\ v_index <= Len(model_fields(model_class))
    /\ LET f == model_fields(model_class)[v_index] IN
       \E value \in RawValues(f) :
         IF Validates(f, value)
           THEN /\ validated_data' = Append(validated_data, ValidatedValue(f, value))
                /\ UNCHANGED v_substituted
           ELSE /\ validated_data' = Append(validated_data, DefaultValue(f))
                /\ v_substituted' = v_substituted + 1
    /\ v_index' = v_index + 1
    /\ UNCHANGED <<v_pc, model_class, v_instance, v_outcome>>

\* instance = model_class(**validated_data); return instance
ValidateConstruct ==
    /\ v_pc = "loop"
    /\ UNCHANGED restVal
    /\ v_index > Len(model_fields(model_class))
    /\ LET fs == model_fields(model_class) IN
       IF \A i \in DOMAIN fs : ConstructOk(fs[i], validated_data[i])
         THEN /\ v_instance' = [i \in DOMAIN fs |-> ConstructField(fs[i], validated_data[i])]
              /\ v_outcome' = "returned"
         ELSE /\ v_instance' = v_instance
              /\ v_outcome' = "raised"
    /\ v_pc' = "done"
    /\ UNCHANGED <<model_class, v_index, validated_data, v_substituted>>

ValNext ==
    \/ ValidateField
    \/ ValidateConstruct

-----------------------------------------------------------------------------
(* ClinicalDataExtractor.run and its three extraction coroutines *)

Tasks == {"patient", "physician", "clinician"}

\* What generate_chat_response(response_format="json_object") hands back to an
\* extraction: a dict whose "response" is a parsed JSON object, a dict whose
\* "response" is unparsed text, the overflow string, None, or an exception.
ExtractAnswers == {"json", "text", "overflow", "none", "throw"}

NoneSlot == [kind |-> "None", class |-> "-"]
RecordSlot(c) == [kind |-> "record", class |-> c]

ClassOf(t) ==
    CASE t = "patient" -> "PatientInformation"
      [] t = "physician" -> "PhysicianInformation"
      [] OTHER -> "ClinicalInformation"

\* extract_*_data after the completion: api_response["response"] of None or of
\* a string raises TypeError, data.get of a text response raises
\* AttributeError; "except Exception" turns each into (None, []).
ExtractReturn(t, a) == IF a = "json" THEN RecordSlot(ClassOf(t)) ELSE NoneSlot

\* The list objects a conversation history can be: the list literal each
\* extract_*_data creates at its call, and the default value of the
\* conversation_history parameter, one object for all calls.
ListIds == Tasks \cup {"default"}

NoHistories == [l \in ListIds |-> <<>>]

\* A message, labelled with the extraction whose prompt or answer it carries.
Message(role, t) == [role |-> role, of |-> t]

\* Mutant: the argument is left out, so the call works on the default list.
HistoryArgDefault(t) == "default"

\* conversation_history=[] at the call site: a list of the task's own.
HistoryArg(t) == t

\* generate_chat_response up to the completion request: the system message is
\* put first unless it already is.
InsertSystem(h, t) ==
    IF h = <<>> \/ h[1] # Message("system", t)
      THEN <<Message("system", t)>> \o h
      ELSE h

\* generate_chat_response once the completion has content: the user message
\* and the assistant's answer are appended; a failed request appends nothing.
AppendExchange(h, t, a) ==
    IF a \in {"json", "text"}
      THEN h \o <<Message("user", t), Message("assistant", t)>>
      ELSE h

ExtIdle ==
    /\ e_pc = "idle"
    /\ t_pc = [t \in Tasks |-> "created"]
    /\ t_answer = [t \in Tasks |-> "-"]
    /\ t_return = [t \in Tasks |-> NoneSlot]
    /\ e_result = [t \in Tasks |-> NoneSlot]
    /\ history = NoHistories

\* State once run has created the three coroutines and awaits asyncio.gather.
ExtEntry ==
    /\ e_pc = "gather"
    /\ t_pc = [t \in Tasks |-> "created"]
    /\ t_answer = [t \in Tasks |-> "-"]
    /\ t_return = [t \in Tasks |-> NoneSlot]
    /\ e_result = [t \in Tasks |-> NoneSlot]
    /\ history = NoHistories

\* A task runs up to its await of generate_chat_response.
ExtractStart(t) ==
    /\ e_pc = "gather"
    /\ UNCHANGED restExt
    /\ t_pc[t] = "created"
    /\ t_pc' = [t_pc EXCEPT ![t] = "awaiting"]
    /\ history' = [history EXCEPT ![HistoryArg(t)] = InsertSystem(@, t)]
    /\ UNCHANGED <<e_pc, t_answer, t_return, e_result>>

\* The completion arrives; the task validates and returns.
ExtractComplete(t) ==
    /\ e_pc = "gather"
    /\ UNCHANGED restExt
    /\ t_pc[t] = "awaiting"
    /\ \E a \in ExtractAnswers :
         /\ t_answer' = [t_answer EXCEPT ![t] = a]
         /\ t_return' = [t_return EXCEPT ![t] = ExtractReturn(t, a)]
         /\ history' = [history EXCEPT ![HistoryArg(t)] = AppendExchange(@, t, a)]
    /\ t_pc' = [t_pc EXCEPT ![t] = "done"]
    /\ UNCHANGED <<e_pc, e_result>>

\* Mutant: the await ends with the first task to complete.
GatherFirstCompleted == \E t \in Tasks : t_pc[t] = "done"

\* What asyncio.gather waits for.
GatherReady == \A t \in Tasks : t_pc[t] = "done"

\* Mutant: one failed task fails the gather, and run's except returns three None.
RunResultAllOrNothing ==
    IF \E t \in Tasks : t_return[t].kind = "None"
      THEN [t \in Tasks |-> NoneSlot]
      ELSE t_return

\* {"patient_data": patient_data, "physician_data": ..., "clinician_data": ...}
RunResult == [t \in Tasks |-> t_return[t]]

\* asyncio.gather returns; run builds its dictionary.
ExtractGather ==
    /\ e_pc = "gather"
    /\ UNCHANGED restExt
    /\ GatherReady
    /\ e_result' = RunResult
    /\ e_pc' = "done"
    /\ UNCHANGED <<t_pc, t_answer, t_return, history>>

ExtNext ==
    \/ \E t \in Tasks : ExtractStart(t)
    \/ \E t \in Tasks : ExtractComplete(t)
    \/ ExtractGather

-----------------------------------------------------------------------------
(* AzureOpenAIManager.generate_chat_response and generate_chat_response_o1 *)
(* on a conversation history that is passed on from call to call.          *)

\* Longest history a further call is made on.
MaxHistory == 5

SystemMessages == {"system_a", "system_b"}

\* What a completion request comes to: content (parsed as JSON or not), the
\* context-length error, or another error.
ChatAnswers == {"json", "text", "overflow", "none"}

\* Histories a chain of calls starts from.
InitialHistories ==
    {<<>>,
     <<Message("system", "system_a")>>,
     <<Message("user", "query"), Message("assistant", "query")>>}

\* generate_chat_response(query, conversation_history, system_message_content):
\* what the call leaves in the list.
generate_chat_response(h, system, a) ==
    AppendExchange(InsertSystem(h, system), "query", a)

\* generate_chat_response_o1(query, conversation_history): no system message.
generate_chat_response_o1(h, a) == AppendExchange(h, "query", a)

LlmIdle ==
    /\ conversation_history = <<>> /\ history_before = <<>>
    /\ llm_call = [fn |-> "none", system |-> "-", answer |-> "-"]

LlmInit ==
    /\ conversation_history \in InitialHistories
    /\ history_before = conversation_history
    /\ llm_call = [fn |-> "none", system |-> "-", answer |-> "-"]

ChatResponse ==
    /\ UNCHANGED restLlm
    /\ Len(conversation_history) <= MaxHistory
    /\ history_before' = conversation_history
    /\ \E system \in SystemMessages, a \in ChatAnswers :
          /\ conversation_history' =
                generate_chat_response(conversation_history, system, a)
          /\ llm_call' = [fn |-> "generate_chat_response", system |-> system,
                          answer |-> a]

ChatResponseO1 ==
    /\ UNCHANGED restLlm
    /\ Len(conversation_history) <= MaxHistory
    /\ history_before' = conversation_history
    /\ \E a \in ChatAnswers \ {"json"} :
          /\ conversation_history' =
                generate_chat_response_o1(conversation_history, a)
          /\ llm_call' = [fn |-> "generate_chat_response_o1", system |-> "-",
                          answer |-> a]

LlmNext == ChatResponse \/ ChatResponseO1

-----------------------------------------------------------------------------
(* CaseManager.evaluate_similarity *)

\* Strings are sequences of characters.
Texts == {<<"a">>, <<"a", "b">>}

\* The keys of the compared dictionaries, in the order expected.items()
\* yields them, and of their sub-dictionaries.
OuterOrder == <<"patient_info", "clinical_info">>
InnerOrder == <<"name", "id">>
OuterKeys == {OuterOrder[i] : i \in 1..Len(OuterOrder)}
InnerKeys == {InnerOrder[i] : i \in 1..Len(InnerOrder)}

\* The characters of a key.
KeyChars(k) ==
    CASE k = "name" -> <<"n", "a", "m", "e">>
      [] OTHER -> <<"i", "d">>

\* A key the dictionary does not have.
AbsentText == <<"absent">>
NoFields == [k \in InnerKeys |-> AbsentText]
Absent == [kind |-> "absent", text |-> <<>>, fields |-> NoFields]

\* The values of a dictionary: a string, or a sub-dictionary of strings.
Leaf(t) == [kind |-> "str", text |-> t, fields |-> NoFields]
Dict(f) == [kind |-> "dict", text |-> <<>>, fields |-> f]
SubDicts == [InnerKeys -> Texts \cup {AbsentText}]
CaseValues == {Leaf(t) : t \in Texts} \cup {Dict(f) : f \in SubDicts}
CaseDicts == [OuterKeys -> CaseValues \cup {Absent}]

\* threshold: the default and a laxer one.
Thresholds == {60, 95}

\* Sequences joined with a separator.
RECURSIVE Join(_, _)
Join(parts, sep) ==
    IF parts = <<>> THEN <<>>
    ELSE IF Len(parts) = 1 THEN parts[1]
    ELSE parts[1] \o sep \o Join(Tail(parts), sep)

\* str(value): the string itself, or the repr of a dictionary of strings.
Str(v) ==
    IF v.kind = "dict"
      THEN LET present == SelectSeq(InnerOrder,
                                    LAMBDA k : v.fields[k] # AbsentText)
               item(k) == <<"'">> \o KeyChars(k) \o <<"'", ":", " ", "'">>
                          \o v.fields[k] \o <<"'">>
           IN  <<"{">> \o Join([i \in 1..Len(present) |-> item(present[i])],
                               <<",", " ">>) \o <<"}">>
      ELSE v.text

\* The length of a longest common subsequence.
RECURSIVE LCS(_, _)
LCS(s, t) ==
    IF s = <<>> \/ t = <<>> THEN 0
    ELSE IF Head(s) = Head(t) THEN 1 + LCS(Tail(s), Tail(t))
    ELSE LET l == LCS(Tail(s), t)
             r == LCS(s, Tail(t))
         IN  IF l >= r THEN l ELSE r

\* fuzz.ratio(s, t): the normalised indel similarity in percent, rounded down
\* (the thresholds are whole numbers).
ratio(s, t) ==
    IF Len(s) + Len(t) = 0 THEN 100
    ELSE (200 * LCS(s, t)) \div (Len(s) + Len(t))

\* No score under a key expected does not have.
NoScore == 0 - 1
NoNested == [k \in InnerKeys |-> NoScore]

\* evaluate_similarity on a sub-dictionary of strings (the recursive call):
\* extracted.get(key, "") is compared with every expected value.
evaluate_similarity_nested(x, e, thr) ==
    LET score(k) == ratio(IF x[k] = AbsentText THEN <<>> ELSE x[k], e[k])
        present == SelectSeq(InnerOrder, LAMBDA k : e[k] # AbsentText)
        scores == [k \in InnerKeys |->
                      IF e[k] = AbsentText THEN NoScore ELSE score(k)]
    IN  [similarity_scores |-> scores,
         detailed_comparison |->
             [i \in 1..Len(present) |->
                 [key |-> present[i], similarity_score |-> score(present[i])]],
         pass |-> \A k \in InnerKeys : e[k] # AbsentText => scores[k] >= thr]

\* similarity_scores[key] for one key of expected: the nested scores when both
\* values are dictionaries, the score of the two strs otherwise.
KeyScore(x, e, thr) ==
    IF e.kind = "absent"
      THEN [kind |-> "absent", score |-> NoScore, nested |-> NoNested]
    ELSE IF e.kind = "dict" /\ x.kind = "dict"
      THEN [kind |-> "dict", score |-> NoScore,
            nested |-> evaluate_similarity_nested(x.fields, e.fields,
                                                  thr).similarity_scores]
    ELSE [kind |-> "number", score |-> ratio(Str(x), Str(e)),
          nested |-> NoNested]

\* What one key of expected adds to detailed_comparison.
KeyDetail(k, x, e, thr) ==
    IF e.kind = "absent" THEN <<>>
    ELSE IF e.kind = "dict" /\ x.kind = "dict"
      THEN evaluate_similarity_nested(x.fields, e.fields,
                                      thr).detailed_comparison
    ELSE <<[key |-> k, similarity_score |-> ratio(Str(x), Str(e))]>>

\* pass_status = all(score >= threshold for score in
\*     similarity_scores.values() if isinstance(score, (int, float)))
PassStatus(scores, thr) ==
    \A k \in DOMAIN scores :
        scores[k].kind = "number" => scores[k].score >= thr

\* evaluate_similarity(extracted, expected, threshold)
evaluate_similarity(x, e, thr) ==
    LET scores == [k \in OuterKeys |-> KeyScore(x[k], e[k], thr)]
    IN  [similarity_scores |-> scores,
         detailed_comparison |->
             KeyDetail(OuterOrder[1], x[OuterOrder[1]], e[OuterOrder[1]], thr)
             \o KeyDetail(OuterOrder[2], x[OuterOrder[2]], e[OuterOrder[2]],
                          thr),
         pass |-> PassStatus(scores, thr)]

NoScores ==
    [k \in OuterKeys |->
        [kind |-> "absent", score |-> NoScore, nested |-> NoNested]]

CaseIdle ==
    /\ c_pc = "idle"
    /\ extracted = [k \in OuterKeys |-> Absent]
    /\ expected = [k \in OuterKeys |-> Absent]
    /\ threshold = 95
    /\ similarity_scores = NoScores
    /\ detailed_comparison = <<>>
    /\ pass_status = FALSE

\* State at entry of evaluate_similarity(x, e, thr).
CaseEntry(x, e, thr) ==
    /\ c_pc = "entry" /\ extracted = x /\ expected = e /\ threshold = thr
    /\ similarity_scores = NoScores
    /\ detailed_comparison = <<>>
    /\ pass_status = FALSE

CaseInit ==
    \E x \in CaseDicts, e \in CaseDicts, thr \in Thresholds : CaseEntry(x, e, thr)

\* evaluate_similarity returns.
EvaluateSimilarity ==
    /\ c_pc = "entry"
    /\ UNCHANGED restCase
    /\ LET r == evaluate_similarity(extracted, expected, threshold)
       IN /\ similarity_scores' = r.similarity_scores
          /\ detailed_comparison' = r.detailed_comparison
          /\ pass_status' = r.pass
    /\ c_pc' = "evaluated"
    /\ UNCHANGED <<extracted, expected, threshold>>

CaseNext == EvaluateSimilarity

-----------------------------------------------------------------------------
(* CosmosDBMongoCoreManager and PAProcessingPipeline.store_output *)

EmptyDict == [x \in {} |-> 0]

\* Case ids documents are stored under.
DbCaseIds == {"case-0", "case-A"}

\* The stage outputs a result bundle can carry, and what distinguishes the
\* output of one run from that of another.
StageKeys == {"ocr_ner_results", "agenticrag_results", "pa_determination_results"}
StageValues == {"first", "second"}

\* self.results[self.caseId] at the time of store_output: the outputs of the
\* stages one run completed.
Bundles == {[k \in S |-> v] : S \in SUBSET StageKeys, v \in StageValues}

\* store_output finds no manager, or its upsert goes through, or it fails.
StoreAnswers == {"no_manager", "ok", "throw"}

\* find_one succeeds or raises PyMongoError.
ReadAnswers == {"ok", "error"}

\* None as returned by read_document (every document has an _id).
NoDocument == EmptyDict

\* The _id the server gives to an inserted document.
ObjectId(coll) == <<"oid-1", "oid-2", "oid-3">>[Cardinality(coll) + 1]

\* A document matches an equality query.
Matches(doc, query) ==
    \A k \in DOMAIN query : k \in DOMAIN doc /\ doc[k] = query[k]

\* {"$set": document}: the named fields are written, the others are kept.
SetFields(doc, fields) ==
    [k \in DOMAIN doc \cup DOMAIN fields |->
        IF k \in DOMAIN fields THEN fields[k] ELSE doc[k]]

\* collection.update_one(query, {"$set": document}, upsert=True)
update_one(coll, query, document) ==
    IF \E d \in coll : Matches(d, query)
      THEN LET d == CHOOSE x \in coll : Matches(x, query)
           IN  (coll \ {d}) \cup {SetFields(d, document)}
      ELSE coll \cup
             {SetFields(SetFields([_id |-> ObjectId(coll)], query), document)}

\* upsert_document: a PyMongoError is logged and None returned.
upsert_document(coll, document, query, answer) ==
    IF answer = "ok" THEN update_one(coll, query, document) ELSE coll

\* read_document: collection.find_one(query), None on PyMongoError.
read_document(coll, query, answer) ==
    IF answer = "ok" /\ \E d \in coll : Matches(d, query)
      THEN CHOOSE d \in coll : Matches(d, query)
      ELSE NoDocument

\* data_item = case_data.copy(); data_item["caseId"] = self.caseId
DataItem(case_data, id) == Put(case_data, "caseId", id)

\* The stage outputs of a stored document or of a data_item.
StageOutputs(doc) == [k \in DOMAIN doc \ {"_id", "caseId"} |-> doc[k]]

DbIdle ==
    /\ collection = {}
    /\ last_stored = [c \in DbCaseIds |-> EmptyDict]
    /\ db_pc = "none"
    /\ read_result = NoDocument

\* store_output with self.caseId = id and self.results[id] = case_data.
store_output(case_data, id, db) ==
    /\ db_pc' = "store"
    /\ read_result' = NoDocument
    /\ IF db = "ok" /\ DOMAIN case_data # {}
         THEN /\ collection' = upsert_document(collection, DataItem(case_data, id),
                                               [caseId |-> id], db)
              /\ last_stored' = [last_stored EXCEPT ![id] = DataItem(case_data, id)]
         ELSE UNCHANGED <<collection, last_stored>>

\* A case's bundle is stored.
DbStore ==
    /\ UNCHANGED restDb
    /\ \E id \in DbCaseIds, case_data \in Bundles, db \in StoreAnswers :
          store_output(case_data, id, db)

\* A case's document is read back.
DbRead ==
    /\ UNCHANGED restDb
    /\ \E id \in DbCaseIds, answer \in ReadAnswers :
          read_result' = read_document(collection, [caseId |-> id], answer)
    /\ db_pc' = "read"
    /\ UNCHANGED <<collection, last_stored>>

DbNext == DbStore \/ DbRead

-----------------------------------------------------------------------------
(* PAProcessingPipeline.run *)

\* Largest number of uploaded files explored.
MaxFiles == 1

\* An uploaded PDF: OCR yields page images, yields none, or fails on it.
FileKinds == {"scan", "blank", "corrupt"}

\* max_retries handed to AgenticRAG.run.
PipeMaxRetries == 3

CaseIds == {"None", "case-A"}

Event(e, stage) == [ev |-> e, stage |-> stage, case |-> self_caseId]

\* The for loop of process_uploaded_files from file i on: every file with
\* images rewrites results["processed_images"]; an OCR failure ends the loop
\* (except Exception: return self.temp_dir, []).
RECURSIVE ProcessFiles(_, _, _, _)
ProcessFiles(files, i, res, imgs) ==
    IF i > Len(files) THEN [results |-> res, images |-> imgs]
    ELSE CASE files[i] = "corrupt" -> [results |-> res, images |-> imgs]
           [] files[i] = "blank" -> ProcessFiles(files, i + 1, res, imgs)
           [] OTHER -> ProcessFiles(files, i + 1,
                                    Put(res, "processed_images", <<i>>),
                                    imgs \cup {i})

PipeIdle ==
    /\ p_pc = "idle" /\ uploaded_files = <<>> /\ caseId = "None"
    /\ p_use_o1 = FALSE /\ self_caseId = "case-0"
    /\ results = EmptyDict /\ temp_dir = "exists" /\ image_files = {}
    /\ agenticrag_results = NullResult
    /\ policy_text = "None" /\ p_exc = "none" /\ p_outcome = "running"
    /\ p_events = <<>> /\ cleanup_calls = 0 /\ store_calls = 0 /\ stored = <<>>
    /\ p_calls = <<>>

\* State at entry of run(files, caseId = id, use_o1 = flag) on a new instance.
PipeEntry(files, id, flag) ==
    /\ p_pc = "entry" /\ uploaded_files = files /\ caseId = id
    /\ p_use_o1 = flag /\ self_caseId = "case-0"
    /\ results = EmptyDict /\ temp_dir = "exists" /\ image_files = {}
    /\ agenticrag_results = NullResult
    /\ policy_text = "None" /\ p_exc = "none" /\ p_outcome = "running"
    /\ p_events = <<>> /\ cleanup_calls = 0 /\ store_calls = 0 /\ stored = <<>>
    /\ p_calls = <<>>

\* An exception is raised inside the try of run, in or after the named stage.
PipeRaise(stage) ==
    /\ p_events' = Append(p_events, Event("exception", stage))
    /\ p_exc' = stage
    /\ p_pc' = "catch"

\* A stage begins inside the try.
PipeBegin(stage, pc) ==
    /\ p_events' = Append(p_events, Event("start", stage))
    /\ p_pc' = pc
    /\ UNCHANGED p_exc

\* The frames of the callees: entered at a call, gone once the call returned.
ExtCall ==
    /\ e_pc' = "gather"
    /\ t_pc' = [t \in Tasks |-> "created"]
    /\ t_answer' = [t \in Tasks |-> "-"]
    /\ t_return' = [t \in Tasks |-> NoneSlot]
    /\ e_result' = [t \in Tasks |-> NoneSlot]
    /\ history' = NoHistories

ExtGone ==
    /\ e_pc' = "idle"
    /\ t_pc' = [t \in Tasks |-> "created"]
    /\ t_answer' = [t \in Tasks |-> "-"]
    /\ t_return' = [t \in Tasks |-> NoneSlot]
    /\ e_result' = [t \in Tasks |-> NoneSlot]
    /\ history' = NoHistories

RagCall(n) ==
    /\ r_pc' = "for" /\ max_retries' = n /\ r_attempt' = 0
    /\ expanded_query' = "None" /\ search_results' = "None"
    /\ evaluation' = NoneEval /\ r_result' = NullResult
    /\ r_outcome' = "running"
    /\ expand_calls' = 0 /\ search_calls' = 0 /\ eval_calls' = 0
    /\ r_log' = <<>>

RagGone ==
    /\ r_pc' = "idle" /\ max_retries' = 0 /\ r_attempt' = 0
    /\ expanded_query' = "None" /\ search_results' = "None"
    /\ evaluation' = NoneEval /\ r_result' = NullResult
    /\ r_outcome' = "running"
    /\ expand_calls' = 0 /\ search_calls' = 0 /\ eval_calls' = 0
    /\ r_log' = <<>>

DetCall(flag, s1, s4, sc) ==
    /\ d_pc' = "if_o1"
    /\ use_o1_arg' = flag /\ use_o1' = flag /\ attempt' = 0
    /\ system_message_content' = "unbound"
    /\ api_response_determination' = Unset
    /\ final_response' = Unset
    /\ d_outcome' = "running" /\ d_exc' = "none" /\ d_model' = "-"
    /\ o1_script' = s1 /\ gpt4o_script' = s4 /\ summarize_script' = sc
    /\ o1_calls' = <<>> /\ gpt4o_calls' = <<>> /\ summarize_calls' = <<>>
    /\ o1_failed' = FALSE /\ fail_log' = <<>>

DetGone ==
    /\ d_pc' = "idle"
    /\ use_o1_arg' = FALSE /\ use_o1' = FALSE /\ attempt' = 0
    /\ system_message_content' = "unbound"
    /\ api_response_determination' = Unset
    /\ final_response' = Unset
    /\ d_outcome' = "running" /\ d_exc' = "none" /\ d_model' = "-"
    /\ o1_script' = <<>> /\ gpt4o_script' = <<>> /\ summarize_script' = "ok"
    /\ o1_calls' = <<>> /\ gpt4o_calls' = <<>> /\ summarize_calls' = <<>>
    /\ o1_failed' = FALSE /\ fail_log' = <<>>

\* if not uploaded_files: return; if caseId: self.caseId = caseId
PipeStart ==
    /\ p_pc = "entry"
    /\ UNCHANGED <<detVars, ragVars, valVars, dbVars, llmVars, caseVars, extVars>>
    /\ IF uploaded_files = <<>>
         THEN /\ p_outcome' = "returned"
              /\ p_pc' = "done"
              /\ UNCHANGED self_caseId
         ELSE /\ self_caseId' = IF caseId # "None" THEN caseId ELSE self_caseId
              /\ p_pc' = "ingest"
              /\ UNCHANGED p_outcome
    /\ UNCHANGED <<uploaded_files, caseId, p_use_o1, p_calls, results, temp_dir,
                   image_files, agenticrag_results, policy_text, p_exc,
                   p_events, cleanup_calls, store_calls, stored>>

\* temp_dir, image_files = self.process_uploaded_files(uploaded_files);
\* image_files = find_all_files(temp_dir, ["png"]).  The raw upload and the
\* construction of the OCR helper are outside process_uploaded_files' try.
PipeIngest ==
    /\ p_pc = "ingest"
    /\ UNCHANGED <<detVars, ragVars, valVars, dbVars, llmVars, caseVars, extVars>>
    /\ LET raw == Put(results, "raw_uploaded_files",
                      [i \in 1..Len(uploaded_files) |-> i])
           begun == Append(p_events, Event("start", "ingestion"))
       IN \E ocr_helper \in {"ok", "throw"} :
            IF ocr_helper = "throw"
              THEN /\ results' = raw
                   /\ p_events' = Append(begun, Event("exception", "ingestion"))
                   /\ p_exc' = "ingestion"
                   /\ p_pc' = "catch"
                   /\ UNCHANGED image_files
              ELSE LET done == ProcessFiles(uploaded_files, 1, raw, {})
                   IN /\ results' = done.results
                      /\ image_files' = done.images
                      /\ p_events' = begun
                      /\ p_pc' = "extract"
                      /\ UNCHANGED p_exc
    /\ UNCHANGED <<uploaded_files, caseId, p_use_o1, p_calls, self_caseId, temp_dir,
                   agenticrag_results, policy_text, p_outcome, cleanup_calls,
                   store_calls, stored>>

\* api_response_ner = await self.clinical_data_extractor.run(image_files, ...)
PipeExtractCall ==
    /\ p_pc = "extract"
    /\ PipeBegin("extraction", "extracting")
    /\ ExtCall
    /\ UNCHANGED <<detVars, ragVars, valVars, dbVars, llmVars, caseVars>>
    /\ UNCHANGED <<uploaded_files, caseId, p_use_o1, p_calls, self_caseId, results,
                   temp_dir, image_files, agenticrag_results, policy_text,
                   p_outcome, cleanup_calls, store_calls, stored>>

\* Mutant: a None slot is logged as it is and the run goes on.
NullSlotTolerated(res) == FALSE

\* patient_info.model_dump(...), physician_info.model_dump(...),
\* clinical_info.model_dump(...): AttributeError on a None slot.
AnyNullSlot(res) == \E t \in Tasks : res[t].kind = "None"

\* The extractor returned: log_output of the three model_dump()s; model_dump
\* on a None slot raises AttributeError before log_output is entered.
PipeExtractReturn ==
    /\ p_pc = "extracting" /\ e_pc = "done"
    /\ IF AnyNullSlot(e_result)
         THEN /\ PipeRaise("log_output")
              /\ UNCHANGED results
         ELSE /\ results' = Put(results, "ocr_ner_results", e_result)
              /\ p_pc' = "retrieve"
              /\ UNCHANGED <<p_events, p_exc>>
    /\ ExtGone
    /\ UNCHANGED <<detVars, ragVars, valVars, dbVars, llmVars, caseVars>>
    /\ UNCHANGED <<uploaded_files, caseId, p_use_o1, p_calls, self_caseId, temp_dir,
                   image_files, agenticrag_results, policy_text, p_outcome,
                   cleanup_calls, store_calls, stored>>

\* agenticrag_results = await self.agentic_rag.run(clinical_info, max_retries=3)
\* clinical_info = api_response_ner.get("clinician_data");
\* self.agentic_rag.run(clinical_info, max_retries=3)
RetrievalArgs ==
    [stage |-> "retrieval",
     clinical_info |-> results["ocr_ner_results"]["clinician"]]

PipeRetrieveCall ==
    /\ p_pc = "retrieve"
    /\ PipeBegin("retrieval", "retrieving")
    /\ RagCall(PipeMaxRetries)
    /\ p_calls' = Append(p_calls, RetrievalArgs)
    /\ UNCHANGED <<detVars, valVars, dbVars, llmVars, caseVars, extVars>>
    /\ UNCHANGED <<uploaded_files, caseId, p_use_o1, self_caseId, results,
                   temp_dir, image_files, agenticrag_results, policy_text,
                   p_outcome, cleanup_calls, store_calls, stored>>

\* Mutant: the empty policy list is let through.
NoPoliciesIgnored(res) == FALSE

\* policies = agenticrag_results.get("policies", []); if not policies
NoPolicies(res) == res.policies = <<>>

\* policies = agenticrag_results.get("policies", []);
\* if not policies: raise ValueError("No policies found ...")
PipeRetrieveReturn ==
    /\ p_pc = "retrieving" /\ r_pc = "done"
    /\ IF r_outcome = "raised"
         THEN /\ PipeRaise("retrieval")
              /\ UNCHANGED agenticrag_results
         ELSE /\ agenticrag_results' = r_result
              /\ IF NoPolicies(r_result)
                   THEN PipeRaise("retrieval")
                   ELSE /\ p_pc' = "policy_text"
                        /\ UNCHANGED <<p_events, p_exc>>
    /\ RagGone
    /\ UNCHANGED <<detVars, valVars, dbVars, llmVars, caseVars, extVars>>
    /\ UNCHANGED <<uploaded_files, caseId, p_use_o1, p_calls, self_caseId, results,
                   temp_dir, image_files, policy_text, p_outcome,
                   cleanup_calls, store_calls, stored>>

\* get_policy_text_from_blob: the text of the document, "" when the download
\* or the analysis failed (the method catches every Exception).
\* get_policy_text_from_blob: the document is downloaded and analysed, or a
\* step fails, or the analysis result carries no content.
PolicyTextAnswers == {"ok", "failed", "no_content"}

\* The text of a policy document.
TextOf(policy) == IF policy = "p1" THEN "text-p1" ELSE "text-p2"

\* get_policy_text_from_blob(blob_url): policy_text.content, "" when the
\* download or the analysis raised.
get_policy_text_from_blob(blob_url, answer) ==
    CASE answer = "ok" -> TextOf(blob_url)
      [] answer = "failed" -> ""
      [] OTHER -> "None"

\* policy_text = self.get_policy_text_from_blob(policies[0]);
\* if policy_text is None: raise ValueError(...)
\* log_output({"agenticrag_results": agenticrag_results})
PipePolicyText ==
    /\ p_pc = "policy_text"
    /\ \E answer \in PolicyTextAnswers :
          LET text == get_policy_text_from_blob(agenticrag_results.policies[1],
                                                answer)
          IN /\ policy_text' = text
             /\ IF text = "None"
                  THEN /\ p_events' = p_events \o
                                        <<Event("start", "policy_text"),
                                          Event("exception", "policy_text")>>
                       /\ p_exc' = "policy_text"
                       /\ p_pc' = "catch"
                       /\ UNCHANGED results
                  ELSE /\ results' = Put(results, "agenticrag_results",
                                         agenticrag_results)
                       /\ PipeBegin("policy_text", "determine")
    /\ UNCHANGED <<detVars, ragVars, valVars, dbVars, llmVars, caseVars, extVars>>
    /\ UNCHANGED <<uploaded_files, caseId, p_use_o1, p_calls, self_caseId, temp_dir,
                   image_files, agenticrag_results, p_outcome, cleanup_calls,
                   store_calls, stored>>

\* The answers of the determinator's collaborators during one pipeline run:
\* the 4o client answers every call alike.
PipeScripts4o == {[i \in 1..(2 * DetMaxRetries) |-> o] : o \in LLMOutcome}

\* await self.auto_pa_determinator.run(..., use_o1=use_o1)
\* self.auto_pa_determinator.run(caseId=self.caseId, patient_info=...,
\* physician_info=..., clinical_info=..., policy_text=policy_text, ...)
DeterminationArgs ==
    [stage |-> "determination",
     patient_info |-> results["ocr_ner_results"]["patient"],
     physician_info |-> results["ocr_ner_results"]["physician"],
     clinical_info |-> results["ocr_ner_results"]["clinician"],
     policy_text |-> policy_text]

PipeDetermineCall ==
    /\ p_pc = "determine"
    /\ PipeBegin("determination", "determining")
    /\ \E s1 \in Script(2), s4 \in PipeScripts4o, sc \in {"ok", "throw"} :
          DetCall(p_use_o1, s1, s4, sc)
    /\ p_calls' = Append(p_calls, DeterminationArgs)
    /\ UNCHANGED <<ragVars, valVars, dbVars, llmVars, caseVars, extVars>>
    /\ UNCHANGED <<uploaded_files, caseId, p_use_o1, self_caseId, results,
                   temp_dir, image_files, agenticrag_results, policy_text,
                   p_outcome, cleanup_calls, store_calls, stored>>

\* The determinator returned or raised:
\* log_output({"pa_determination_results": final_determination}, ...)
PipeDetermineReturn ==
    /\ p_pc = "determining" /\ d_pc = "done"
    /\ IF d_outcome = "raised"
         THEN /\ PipeRaise("determination")
              /\ UNCHANGED results
         ELSE /\ results' = Put(results, "pa_determination_results", final_response)
              /\ p_pc' = "cleanup"
              /\ UNCHANGED <<p_events, p_exc>>
    /\ DetGone
    /\ UNCHANGED <<ragVars, valVars, dbVars, llmVars, caseVars, extVars>>
    /\ UNCHANGED <<uploaded_files, caseId, p_use_o1, p_calls, self_caseId, temp_dir,
                   image_files, agenticrag_results, policy_text, p_outcome,
                   cleanup_calls, store_calls, stored>>

\* Mutant: run has no handler, the exception stays in flight through finally.
PipeCatchNothing ==
    /\ p_pc = "catch"
    /\ p_pc' = "cleanup"
    /\ UNCHANGED <<p_events, p_exc>>
    /\ UNCHANGED <<detVars, ragVars, valVars, dbVars, llmVars, caseVars, extVars>>
    /\ UNCHANGED <<uploaded_files, caseId, p_use_o1, p_calls, self_caseId, results,
                   temp_dir, image_files, agenticrag_results, policy_text,
                   p_outcome, cleanup_calls, store_calls, stored>>

\* except Exception as e: logger.error(f"PAprocessing failed for {caseId}: {e}")
PipeCatch ==
    /\ p_pc = "catch"
    /\ p_events' = Append(p_events, Event("failure_logged", p_exc))
    /\ p_exc' = "none"
    /\ p_pc' = "cleanup"
    /\ UNCHANGED <<detVars, ragVars, valVars, dbVars, llmVars, caseVars, extVars>>
    /\ UNCHANGED <<uploaded_files, caseId, p_use_o1, p_calls, self_caseId, results,
                   temp_dir, image_files, agenticrag_results, policy_text,
                   p_outcome, cleanup_calls, store_calls, stored>>

\* finally: self.cleanup_temp_dir(): shutil.rmtree inside its own try/except.
PipeCleanup ==
    /\ p_pc = "cleanup"
    /\ cleanup_calls' = cleanup_calls + 1
    /\ \E rmtree \in {"ok", "throw"} :
          /\ temp_dir' = IF rmtree = "ok" THEN "removed" ELSE temp_dir
          /\ p_events' = Append(p_events, Event("cleanup", rmtree))
    /\ p_pc' = "store"
    /\ UNCHANGED <<detVars, ragVars, valVars, dbVars, llmVars, caseVars, extVars>>
    /\ UNCHANGED <<uploaded_files, caseId, p_use_o1, p_calls, self_caseId, results,
                   image_files, agenticrag_results, policy_text, p_exc,
                   p_outcome, store_calls, stored>>

\* What store_output meets: no CosmosDB manager, an upsert that succeeds, an
\* upsert that throws (caught inside store_output).

\* finally: self.store_output(); then run ends: normally, or with the exception
\* still in flight.
PipeStore ==
    /\ p_pc = "store"
    /\ store_calls' = store_calls + 1
    /\ \E db \in StoreAnswers :
          /\ stored' = IF db = "ok" /\ DOMAIN results # {}
                         THEN Append(stored, Put(results, "caseId", self_caseId))
                         ELSE stored
          /\ p_events' = Append(p_events, Event("store", db))
          /\ store_output(results, self_caseId, db)
    /\ p_outcome' = IF p_exc = "none" THEN "returned" ELSE "raised"
    /\ p_pc' = "done"
    /\ UNCHANGED <<detVars, ragVars, valVars, extVars, llmVars, caseVars>>
    /\ UNCHANGED <<uploaded_files, caseId, p_use_o1, p_calls, self_caseId, results,
                   temp_dir, image_files, agenticrag_results, policy_text,
                   p_exc, cleanup_calls>>

PipeNext ==
    \/ PipeStart
    \/ PipeIngest
    \/ PipeExtractCall
    \/ PipeExtractReturn
    \/ PipeRetrieveCall
    \/ PipeRetrieveReturn
    \/ PipePolicyText
    \/ PipeDetermineCall
    \/ PipeDetermineReturn
    \/ PipeCatch
    \/ PipeCleanup
    \/ PipeStore
    \/ ExtNext
    \/ RagNext
    \/ DetNext

-----------------------------------------------------------------------------
(* Specifications: one per component, the others at rest. *)

InitDet == DetInit /\ RagIdle /\ ValIdle /\ ExtIdle /\ PipeIdle /\ DbIdle /\ LlmIdle /\ CaseIdle

SpecDet == InitDet /\ [][DetNext]_vars

RagInit == \E n \in 0..MaxRetriesBound : RagEntry(n)

InitRag == RagInit /\ DetIdle /\ ValIdle /\ ExtIdle /\ PipeIdle /\ DbIdle /\ LlmIdle /\ CaseIdle

SpecRag == InitRag /\ [][RagNext]_vars

ValInit == \E c \in ModelClasses : ValEntry(c)

InitVal == ValInit /\ DetIdle /\ RagIdle /\ ExtIdle /\ PipeIdle /\ DbIdle /\ LlmIdle /\ CaseIdle

SpecVal == InitVal /\ [][ValNext]_vars

InitExt == ExtEntry /\ DetIdle /\ RagIdle /\ ValIdle /\ PipeIdle /\ DbIdle /\ LlmIdle /\ CaseIdle

SpecExt == InitExt /\ [][ExtNext]_vars

PipeInit ==
    \E n \in 0..MaxFiles, id \in CaseIds, flag \in BOOLEAN :
        \E files \in [1..n -> FileKinds] : PipeEntry(files, id, flag)

InitPipe == PipeInit /\ DetIdle /\ RagIdle /\ ValIdle /\ ExtIdle /\ DbIdle /\ LlmIdle /\ CaseIdle

SpecPipe == InitPipe /\ [][PipeNext]_vars

\* The document store alone, under any sequence of stores and reads.
InitDb == DbIdle /\ DetIdle /\ RagIdle /\ ValIdle /\ ExtIdle /\ PipeIdle /\ LlmIdle /\ CaseIdle

SpecDb == InitDb /\ [][DbNext]_vars

\* The LLM client alone, on one history through any chain of calls.
InitLlm ==
    LlmInit /\ DetIdle /\ RagIdle /\ ValIdle /\ ExtIdle /\ PipeIdle /\ DbIdle
    /\ CaseIdle

SpecLlm == InitLlm /\ [][LlmNext]_vars

InitCase ==
    CaseInit /\ DetIdle /\ RagIdle /\ ValIdle /\ ExtIdle /\ PipeIdle /\ DbIdle
    /\ LlmIdle

SpecCase == InitCase /\ [][CaseNext]_vars

\* self.results[caseId] as an earlier run for the case left it on the
\* instance: __init__ sets self.results = {} once, log_output only creates the
\* case's entry when it is missing and then update()s it.  The bundle is the
\* one a run with use_o1 leaves when every stage succeeded and the policy was
\* summarised once.
EarlierBundle ==
    [raw_uploaded_files |-> <<1>>,
     ocr_ner_results |-> [t \in Tasks |-> RecordSlot(ClassOf(t))],
     agenticrag_results |-> ResultOf("q1",
                                     [retry |-> "false", has_policies |-> TRUE,
                                      policies |-> <<"p1">>]),
     summary_policy |-> "summarized_policy",
     pa_determination_results |-> [kind |-> "dict", model |-> "o1", call |-> 2]]

\* The document the earlier run's store_output upserted.
EarlierDocument ==
    SetFields([_id |-> ObjectId({})], DataItem(EarlierBundle, "case-A"))

\* State at entry of run(files, caseId = id, use_o1 = flag) on an instance
\* whose earlier run for "case-A" completed: self.caseId, self.results and the
\* stored document are those the earlier run left, its temporary directory
\* was removed by cleanup_temp_dir.
RerunEntry(files, id, flag) ==
    /\ p_pc = "entry" /\ uploaded_files = files /\ caseId = id
    /\ p_use_o1 = flag /\ self_caseId = "case-A"
    /\ results = EarlierBundle /\ temp_dir = "removed" /\ image_files = {}
    /\ agenticrag_results = NullResult
    /\ policy_text = "None" /\ p_exc = "none" /\ p_outcome = "running"
    /\ p_events = <<>> /\ cleanup_calls = 0 /\ store_calls = 0 /\ stored = <<>>
    /\ p_calls = <<>>
    /\ collection = {EarlierDocument}
    /\ last_stored = [c \in DbCaseIds |->
                        IF c = "case-A" THEN DataItem(EarlierBundle, "case-A")
                        ELSE EmptyDict]
    /\ db_pc = "store"
    /\ read_result = NoDocument

RerunInit ==
    \E n \in 0..MaxFiles, id \in CaseIds, flag \in BOOLEAN :
        \E files \in [1..n -> FileKinds] : RerunEntry(files, id, flag)

InitRerun == RerunInit /\ DetIdle /\ RagIdle /\ ValIdle /\ ExtIdle /\ LlmIdle /\ CaseIdle

SpecRerun == InitRerun /\ [][PipeNext]_vars

\* Largest number of uploaded files explored for process_uploaded_files alone.
MaxIngestFiles == 3

\* run up to the return of process_uploaded_files, on a new instance.
IngestInit ==
    \E n \in 0..MaxIngestFiles, id \in CaseIds, flag \in BOOLEAN :
        \E files \in [1..n -> FileKinds] : PipeEntry(files, id, flag)

IngestNext == PipeStart \/ PipeIngest

InitIngest ==
    IngestInit /\ DetIdle /\ RagIdle /\ ValIdle /\ ExtIdle /\ DbIdle /\ LlmIdle /\ CaseIdle

SpecIngest == InitIngest /\ [][IngestNext]_vars

-----------------------------------------------------------------------------
(* Claims about AutoPADeterminator.run (SpecDet) *)

\* C1: called with use_o1 = true, when the primary attempt throws, the
\* exception does not leave run, the secondary model is attempted, and when
\* the secondary completion succeeds run returns that completion's response.
C1_FallbackReturnsSecondary ==
    (d_pc = "done" /\ use_o1_arg /\ o1_failed /\ At(gpt4o_script, 1) = "ok") =>
        /\ d_outcome = "returned"
        /\ gpt4o_calls # <<>>
        /\ final_response = [kind |-> "dict", model |-> "4o", call |-> 1]

\* C2: when the first secondary completion returns the context-overflow
\* sentinel, summarize_policy_callback is invoked exactly once with the
\* original policy text, the secondary model is called once more with the
\* prompt rebuilt from the summary, and run returns that second response.
C2_OverflowSummarizesOnce ==
    (/\ d_pc = "done" /\ ~use_o1_arg
     /\ At(gpt4o_script, 1) = "overflow" /\ summarize_script = "ok"
     /\ At(gpt4o_script, 2) = "ok") =>
        /\ summarize_calls = <<"policy_text">>
        /\ Len(gpt4o_calls) = 2
        /\ gpt4o_calls[2].policy = "summarized_policy"
        /\ d_outcome = "returned"
        /\ final_response = [kind |-> "dict", model |-> "4o", call |-> 2]

\* The case of C1 as the code runs it: the primary threw, the secondary would
\* have answered, and run raised.
C1_Case ==
    /\ d_pc = "done" /\ use_o1_arg /\ o1_failed
    /\ At(gpt4o_script, 1) = "ok"
    /\ d_outcome = "raised" /\ d_exc = "UnboundLocalError"
    /\ gpt4o_calls = <<>>

\* The case of C2 as the code runs it: no completion is ever requested.
C2_Case ==
    /\ d_pc = "done" /\ ~use_o1_arg
    /\ At(gpt4o_script, 1) = "overflow" /\ summarize_script = "ok"
    /\ At(gpt4o_script, 2) = "ok"
    /\ d_outcome = "raised" /\ d_exc = "UnboundLocalError"
    /\ gpt4o_calls = <<>> /\ summarize_calls = <<>>

\* C10: the secondary model is attempted at most 2 times; after a first
\* attempt that failed with an exception the second attempt is made; when the
\* second attempt fails too, its exception leaves run.
C10_SecondaryAtMostTwice ==
    /\ attempt <= 2
    /\ Len(fail_log) <= 2
    /\ Len(fail_log) = 1 =>
          /\ attempt = 2
          /\ d_pc \in {"try_4o", "summarize", "retry", "final", "done"}
    /\ Len(fail_log) = 2 =>
          /\ d_pc = "done"
          /\ d_outcome = "raised"
          /\ d_exc = fail_log[2]

C10_Witness ==
    /\ d_pc = "done"
    /\ Len(fail_log) = 2
    /\ d_outcome = "raised"
    /\ attempt = 2

\* C11: a context overflow signalled by the LLM client is never what makes run
\* raise, however many consecutive calls answer with the overflow sentinel
\* (the call made after the summarization included).
C11_OverflowNeverRaised ==
    (d_pc = "done" /\ d_outcome = "raised") =>
        api_response_determination.kind # "sentinel"

\* The case of C11 in which the code departs from it: the primary client
\* answers the first call and the call after the summarization with the
\* sentinel, and run raises TypeError on indexing the sentinel string.
C11_Case ==
    /\ d_pc = "done" /\ use_o1_arg
    /\ o1_script = <<"overflow", "overflow">> /\ summarize_script = "ok"
    /\ summarize_calls = <<"policy_text">> /\ Len(o1_calls) = 2
    /\ api_response_determination = Sentinel
    /\ d_outcome = "raised" /\ d_exc = "TypeError"

\* C16: a run with use_o1 false whose collaborators all succeed requests exactly
\* one 4o completion, on attempt 1, and returns its response; and every attempt
\* of the 4o loop gets as far as requesting a completion.
C16_PlainRunOneCompletion ==
    /\ (d_pc = "done" /\ ~use_o1_arg /\ At(gpt4o_script, 1) = "ok") =>
          /\ d_outcome = "returned"
          /\ attempt = 1
          /\ gpt4o_calls = <<create_prompt_pa("policy_text", FALSE)>>
          /\ o1_calls = <<>> /\ summarize_calls = <<>>
          /\ final_response = DictResp("4o", 1)
    /\ (d_pc = "done" /\ attempt >= 1) => Len(gpt4o_calls) >= attempt

\* The case of C16 as the code runs it: both attempts fail on the read of
\* system_message_content, before any completion is requested.
C16_Case ==
    /\ d_pc = "done" /\ ~use_o1_arg
    /\ \A i \in DOMAIN gpt4o_script : gpt4o_script[i] = "ok"
    /\ summarize_script = "ok"
    /\ attempt = DetMaxRetries
    /\ fail_log = <<"UnboundLocalError", "UnboundLocalError">>
    /\ gpt4o_calls = <<>>
    /\ d_outcome = "raised"

\* C17: when the primary model is unavailable, its client answering None to the
\* completion run asked of it, a run called with use_o1 true goes on to the
\* secondary model instead of failing on the missing response.
C17_UnavailablePrimaryFallsBack ==
    (/\ d_pc = "done" /\ use_o1_arg
     /\ o1_calls # <<>> /\ At(o1_script, Len(o1_calls)) = "none") =>
        /\ ~use_o1 /\ attempt >= 1
        /\ d_exc # "TypeError"

\* The case of C17 in which the code departs from it: the o1 client answers
\* None, nothing is raised inside generate_response_with_model, use_o1 stays
\* true, the 4o loop is skipped and the subscript of None raises.
C17_Case ==
    /\ d_pc = "done" /\ use_o1_arg /\ use_o1
    /\ o1_script[1] = "none" /\ Len(o1_calls) = 1
    /\ \A i \in DOMAIN gpt4o_script : gpt4o_script[i] = "ok"
    /\ api_response_determination = NoneResp
    /\ attempt = 0 /\ gpt4o_calls = <<>> /\ ~o1_failed
    /\ d_outcome = "raised" /\ d_exc = "TypeError"

-----------------------------------------------------------------------------
(* Claims about AgenticRAG.run (SpecRag) *)

\* C3: run starts at most max_retries attempts (at most max_retries calls of
\* expand_query); with max_retries = 3 and an evaluator that sets retry = true
\* on every attempt, run returns {query: None, policies: [], evaluation: None}
\* after exactly 3 attempts.
C3_AttemptsBounded ==
    /\ expand_calls <= max_retries
    /\ Len(r_log) <= max_retries
    /\ (/\ r_pc = "done" /\ max_retries = 3
        /\ \A i \in DOMAIN r_log : r_log[i].end = "eval_retry") =>
          /\ r_outcome = "returned"
          /\ r_result = [query |-> "None", policies |-> <<>>, evaluation |-> NoneEval]
          /\ Len(r_log) = 3
          /\ expand_calls = 3 /\ search_calls = 3 /\ eval_calls = 3

C3_Witness ==
    /\ r_pc = "done" /\ max_retries = 3
    /\ Len(r_log) = 3
    /\ \A i \in DOMAIN r_log :
          r_log[i].end = "eval_retry" /\ r_log[i].evaluation.retry = "true"
    /\ r_result.query = "None"

\* C4: if attempt k is the first whose evaluation has retry = false, run
\* returns that attempt's expanded query, policies and evaluation after
\* exactly k attempts and makes no further expand, search or evaluate call.
C4_ReturnsFirstAccepted ==
    \A k \in DOMAIN r_log :
        r_log[k].evaluation.retry = "false" =>
            /\ r_pc = "done" /\ r_outcome = "returned"
            /\ k = Len(r_log)
            /\ expand_calls = k /\ search_calls <= k /\ eval_calls <= k
            /\ r_result.query = r_log[k].query
            /\ r_result.evaluation = r_log[k].evaluation
            /\ r_result.policies = IF r_log[k].evaluation.has_policies
                                     THEN r_log[k].evaluation.policies ELSE <<>>

C4_Witness ==
    /\ r_pc = "done"
    /\ Len(r_log) = 2 /\ expand_calls = 2
    /\ r_log[1].evaluation.retry = "true"
    /\ r_log[2].evaluation.retry = "false"
    /\ r_result.policies = <<"p1">>
    /\ r_result.query = r_log[2].query

\* C5: run never raises: an exception thrown inside an attempt by expand_query,
\* retrieve_policies or evaluate_results ends that attempt only and consumes
\* one unit of max_retries; once the budget is used up run returns
\* {query: None, policies: [], evaluation: None}.
C5_NeverRaises ==
    /\ r_outcome # "raised"
    /\ r_attempt <= max_retries
    /\ r_attempt = Cardinality({i \in DOMAIN r_log : r_log[i].end # "returned"})
    /\ (r_pc = "done" /\ \A i \in DOMAIN r_log : r_log[i].end # "returned") =>
          /\ r_outcome = "returned"
          /\ r_attempt = max_retries
          /\ r_result = [query |-> "None", policies |-> <<>>, evaluation |-> NoneEval]

C5_Witness ==
    /\ r_pc = "done" /\ max_retries = 3
    /\ r_outcome = "returned"
    /\ \E i, j, k \in DOMAIN r_log :
          /\ r_log[i].end = "expand_exc"
          /\ r_log[j].end = "search_exc"
          /\ r_log[k].end = "eval_exc" /\ r_log[k].evaluation.retry = "absent"
    /\ r_result.query = "None" /\ r_result.policies = <<>>

\* C22: every evaluation run accepts has retry true whenever its policies are
\* empty, so every result run returns with a query that is not None carries a
\* non-empty list of policies.
C22_AcceptedHasPolicies ==
    /\ \A i \in DOMAIN r_log :
          r_log[i].end = "returned" =>
              (r_log[i].evaluation.has_policies
                  /\ r_log[i].evaluation.policies # <<>>)
    /\ (r_pc = "done" /\ r_result.query # "None") => r_result.policies # <<>>

\* The case of C22 in which the code departs from it: the evaluator answers
\* {"policies": [], "retry": false} and run returns it with the query.
C22_Case ==
    /\ r_pc = "done" /\ r_outcome = "returned"
    /\ r_result.query \in Queries
    /\ r_result.policies = <<>>
    /\ r_result.evaluation =
          [retry |-> "false", has_policies |-> TRUE, policies |-> <<>>]

-----------------------------------------------------------------------------
(* Claims about ClinicalDataExtractor (SpecExt, SpecVal) *)

\* C8: if exactly one of the three extraction calls fails while the other two
\* succeed, run returns None in the failed call's slot and a validated record
\* in each of the other two.
C8_OneFailureOneNull ==
    e_pc = "done" =>
        \A t \in Tasks :
            (t_answer[t] # "json" /\ \A u \in Tasks \ {t} : t_answer[u] = "json") =>
                /\ e_result[t].kind = "None"
                /\ \A u \in Tasks \ {t} :
                      e_result[u] = [kind |-> "record", class |-> ClassOf(u)]

C8_Witness ==
    /\ e_pc = "done"
    /\ t_answer["physician"] = "none"
    /\ t_answer["patient"] = "json" /\ t_answer["clinician"] = "json"
    /\ e_result["physician"].kind = "None"
    /\ e_result["patient"].kind = "record" /\ e_result["clinician"].kind = "record"

\* C9: for every raw mapping, validate_with_field_level_correction raises no
\* exception and returns a record in which every declared field is present
\* and non-null (nested records included).
C9_ValidatorTotal ==
    /\ v_outcome # "raised"
    /\ v_pc = "done" =>
          /\ v_outcome = "returned"
          /\ Len(v_instance) = Len(model_fields(model_class))
          /\ \A i \in DOMAIN v_instance :
                LET f == model_fields(model_class)[i] IN
                IF f.type = "str"
                  THEN v_instance[i].kind = "str" /\ v_instance[i].text # ""
                  ELSE /\ v_instance[i].kind = "model"
                       /\ Len(v_instance[i].sub) = Len(SubFields(f.type))
                       /\ \A j \in DOMAIN v_instance[i].sub :
                             v_instance[i].sub[j] \in {"extracted", "Not provided"}

C9_Witness ==
    /\ v_pc = "done" /\ v_outcome = "returned"
    /\ model_class = "ClinicalInformation"
    /\ v_substituted = Len(model_fields(model_class))
    /\ v_instance[10].kind = "model"

\* C13: the three extraction tasks share no mutable state: in every
\* interleaving each task's conversation history holds only that task's
\* messages (its system message, then its prompt and answer once the completion
\* has arrived), the shared default list is never written, and each result
\* slot holds nothing but a record of its own task.
C13_NoSharedState ==
    /\ history["default"] = <<>>
    /\ \A t \in Tasks :
          /\ \A i \in DOMAIN history[t] : history[t][i].of = t
          /\ t_pc[t] = "created" => history[t] = <<>>
          /\ t_pc[t] = "awaiting" => history[t] = <<Message("system", t)>>
          /\ t_pc[t] = "done" =>
                history[t] = AppendExchange(<<Message("system", t)>>, t, t_answer[t])
          /\ t_return[t] \in {NoneSlot, RecordSlot(ClassOf(t))}
          /\ e_result[t] \in {NoneSlot, RecordSlot(ClassOf(t))}
          /\ t_pc[t] # "done" => t_return[t] = NoneSlot

C13_Witness ==
    /\ e_pc = "gather"
    /\ t_pc = [t \in Tasks |-> IF t = "physician" THEN "done" ELSE "awaiting"]
    /\ t_answer["physician"] = "json"
    /\ Len(history["physician"]) = 3
    /\ history["patient"] = <<Message("system", "patient")>>
    /\ history["clinician"] = <<Message("system", "clinician")>>
    /\ t_return["physician"] = RecordSlot("PhysicianInformation")

\* C14: run returns only once all three extraction tasks have finished, each
\* with a record or a failure: whatever the interleaving, no task is pending
\* or unstarted when run has returned, and the returned dictionary carries what
\* each of the three tasks returned.
C14_ReturnsAfterAllTasks ==
    e_pc = "done" =>
        \A t \in Tasks :
            /\ t_pc[t] = "done"
            /\ t_answer[t] \in ExtractAnswers
            /\ e_result[t] = t_return[t]

C14_Witness ==
    /\ e_pc = "done"
    /\ t_answer = [t \in Tasks |->
                     CASE t = "patient" -> "json"
                       [] t = "physician" -> "none"
                       [] OTHER -> "throw"]
    /\ e_result["patient"] = RecordSlot("PatientInformation")
    /\ e_result["physician"] = NoneSlot /\ e_result["clinician"] = NoneSlot

-----------------------------------------------------------------------------
(* Claims about PAProcessingPipeline.run (SpecPipe) *)

\* C6: no exception leaves run: an exception raised in a stage (or while a
\* stage's output is logged) is followed by no further stage, is logged as a
\* failure carrying the case id, and run returns normally.
C6_NoExceptionEscapes ==
    /\ p_outcome # "raised"
    /\ (p_pc = "done" /\ uploaded_files # <<>>) =>
          p_outcome = "returned" /\ p_exc = "none"
    /\ \A i \in DOMAIN p_events :
          p_events[i].ev = "exception" =>
             /\ \A j \in DOMAIN p_events : j > i => p_events[j].ev # "start"
             /\ p_pc \in {"catch", "cleanup", "store", "done"}
             /\ d_pc = "idle" /\ r_pc = "idle" /\ e_pc = "idle"
             /\ IF i = Len(p_events)
                  THEN p_pc = "catch"
                  ELSE p_events[i + 1] =
                          [ev |-> "failure_logged",
                           stage |-> p_events[i].stage,
                           case |-> IF caseId # "None" THEN caseId ELSE "case-0"]

C6_Witness ==
    /\ p_pc = "done" /\ p_outcome = "returned"
    /\ caseId = "case-A"
    /\ \E i \in DOMAIN p_events :
          /\ p_events[i].ev = "exception"
          /\ p_events[i].stage = "determination"
          /\ p_events[i + 1].ev = "failure_logged"
          /\ p_events[i + 1].case = "case-A"
    /\ \E j \in DOMAIN p_events :
          p_events[j].ev = "exception" /\ p_events[j].stage = "determination"

\* C7: in every invocation of run (success, failure in a stage, no files) both
\* cleanup_temp_dir and store_output have been executed when run returns, the
\* cleanup first, and a failed cleanup does not prevent the call of store_output.
C7_CleanupAndStoreAlways ==
    p_pc = "done" =>
        /\ cleanup_calls = 1
        /\ store_calls = 1
        /\ \E i \in DOMAIN p_events :
              /\ p_events[i].ev = "cleanup"
              /\ i < Len(p_events)
              /\ p_events[i + 1].ev = "store"

\* The case of C7 in which the code departs from it: run called with no files.
C7_NoFilesCase ==
    /\ p_pc = "done" /\ p_outcome = "returned"
    /\ uploaded_files = <<>>
    /\ cleanup_calls = 0 /\ store_calls = 0
    /\ temp_dir = "exists"

\* C12: when no attempt of the retrieval loop is accepted, AgenticRAG.run
\* returns the result with policies == [] and the pipeline ends the case as a
\* handled failure: neither policy text resolution nor determination is
\* started, no exception leaves run, and the failure is logged with the case id.
C12_NoPolicyHandledFailure ==
    /\ (/\ p_pc = "retrieving" /\ r_pc = "done"
        /\ \A i \in DOMAIN r_log : r_log[i].end # "returned") =>
          /\ r_outcome = "returned"
          /\ r_result.policies = <<>> /\ r_result.query = "None"
    /\ (/\ \E i \in DOMAIN p_events :
              p_events[i].ev = "start" /\ p_events[i].stage = "retrieval"
        /\ p_pc # "retrieving"
        /\ agenticrag_results.policies = <<>>) =>
          /\ \A j \in DOMAIN p_events :
                p_events[j].ev = "start" =>
                   p_events[j].stage \notin {"policy_text", "determination"}
          /\ policy_text = "None" /\ d_pc = "idle"
          /\ "agenticrag_results" \notin DOMAIN results
          /\ "pa_determination_results" \notin DOMAIN results
          /\ \E j \in DOMAIN p_events :
                p_events[j].ev = "exception" /\ p_events[j].stage = "retrieval"
          /\ p_outcome # "raised"
          /\ p_pc \in {"catch", "cleanup", "store", "done"}
          /\ p_pc = "done" =>
                /\ p_outcome = "returned"
                /\ \E j \in DOMAIN p_events :
                      p_events[j] = [ev |-> "failure_logged", stage |-> "retrieval",
                                     case |-> self_caseId]

C12_Witness ==
    /\ p_pc = "done" /\ p_outcome = "returned"
    /\ agenticrag_results.query = "None" /\ agenticrag_results.policies = <<>>
    /\ \E j \in DOMAIN p_events :
          p_events[j].ev = "failure_logged" /\ p_events[j].stage = "retrieval"
    /\ "ocr_ner_results" \in DOMAIN results

\* C18: when run fails at a stage, the bundle store_output hands to the store
\* holds the output of every stage completed before: the three extraction
\* records when retrieval or a later stage failed, and the retrieval result too
\* when policy text resolution or determination failed.
C18_PartialResultsPersisted ==
    \A i \in DOMAIN p_events :
        (p_events[i].ev = "exception" /\ p_pc \in {"store", "done"}) =>
            LET stage == p_events[i].stage
                bundle == DataItem(results, self_caseId)
            IN /\ stage \in {"retrieval", "policy_text", "determination"} =>
                    /\ "ocr_ner_results" \in DOMAIN bundle
                    /\ \A t \in Tasks :
                          bundle["ocr_ner_results"][t] = RecordSlot(ClassOf(t))
               /\ stage \in {"policy_text", "determination"} =>
                    /\ "agenticrag_results" \in DOMAIN bundle
                    /\ bundle["agenticrag_results"] = agenticrag_results
               /\ (p_pc = "done" /\ p_events[Len(p_events)].stage = "ok") =>
                    /\ stored = <<bundle>>
                    /\ last_stored[self_caseId] = bundle

\* The case of C18 in which the code departs from it: retrieval returned a
\* policy, policy text resolution raised, and the stored bundle has the
\* extraction records but no retrieval result.
C18_Case ==
    /\ p_pc = "done"
    /\ \E i \in DOMAIN p_events :
          p_events[i].ev = "exception" /\ p_events[i].stage = "policy_text"
    /\ agenticrag_results.policies # <<>>
    /\ Len(stored) = 1
    /\ "ocr_ner_results" \in DOMAIN stored[1]
    /\ "agenticrag_results" \notin DOMAIN stored[1]
    /\ collection # {}

\* C19: the stages of a run start in the order ingestion, extraction,
\* retrieval, policy text resolution, determination, each once and only after
\* the one before it has returned; retrieval is handed the clinical record
\* extraction produced, and determination the three extracted records and the
\* text of the first policy retrieval returned.
C19_StagesInOrder ==
    LET order == <<"ingestion", "extraction", "retrieval", "policy_text",
                   "determination">>
        starts == SelectSeq(p_events, LAMBDA e : e.ev = "start")
    IN /\ Len(starts) <= Len(order)
       /\ \A i \in DOMAIN starts : starts[i].stage = order[i]
       /\ e_pc # "idle" => (Len(starts) = 2 /\ r_pc = "idle" /\ d_pc = "idle")
       /\ r_pc # "idle" => (Len(starts) = 3 /\ e_pc = "idle" /\ d_pc = "idle")
       /\ d_pc # "idle" => (Len(starts) = 5 /\ e_pc = "idle" /\ r_pc = "idle")
       /\ \A i \in DOMAIN p_calls :
             /\ "ocr_ner_results" \in DOMAIN results
             /\ p_calls[i].clinical_info = RecordSlot("ClinicalInformation")
             /\ p_calls[i].clinical_info = results["ocr_ner_results"]["clinician"]
             /\ p_calls[i].stage = "retrieval" => i = 1 /\ Len(starts) >= 3
             /\ p_calls[i].stage = "determination" =>
                   /\ i = 2 /\ Len(starts) = 5
                   /\ p_calls[i].patient_info = RecordSlot("PatientInformation")
                   /\ p_calls[i].physician_info = RecordSlot("PhysicianInformation")
                   /\ agenticrag_results.policies # <<>>
                   /\ p_calls[i].policy_text = TextOf(agenticrag_results.policies[1])

\* The case of C19 in which the code departs from it: the stages ran in order,
\* the download or analysis of the first of two policies failed, and
\* determination was handed the empty string in place of that policy's text.
C19_Case ==
    /\ p_pc = "done"
    /\ Len(SelectSeq(p_events, LAMBDA e : e.ev = "start")) = 5
    /\ agenticrag_results.policies = <<"p2", "p1">>
    /\ Len(p_calls) = 2
    /\ p_calls[1].stage = "retrieval" /\ p_calls[2].stage = "determination"
    /\ p_calls[2].policy_text = ""

\* C20: determination is invoked only with policy text that was fetched: when
\* the download or the analysis of the first policy fails, the run is ended as
\* a failure of policy text resolution and determination is never started.
C20_DeterminationNeedsPolicyText ==
    /\ \A i \in DOMAIN p_calls :
          p_calls[i].stage = "determination" =>
              p_calls[i].policy_text \notin {"", "None"}
    /\ policy_text = "" =>
          /\ p_pc \in {"catch", "cleanup", "store", "done"}
          /\ d_pc = "idle"
          /\ \A j \in DOMAIN p_events :
                ~(p_events[j].ev = "start" /\ p_events[j].stage = "determination")
          /\ \E j \in DOMAIN p_events :
                p_events[j].ev = "exception" /\ p_events[j].stage = "policy_text"

\* The case of C20 in which the code departs from it: get_policy_text_from_blob
\* swallowed the failure and returned "", which is not None, and the
\* determinator is running on it.
C20_Case ==
    /\ p_pc = "determining" /\ d_pc = "if_o1"
    /\ policy_text = ""
    /\ p_exc = "none"
    /\ p_calls[Len(p_calls)] =
          [stage |-> "determination",
           patient_info |-> RecordSlot("PatientInformation"),
           physician_info |-> RecordSlot("PhysicianInformation"),
           clinical_info |-> RecordSlot("ClinicalInformation"),
           policy_text |-> ""]

\* C21: a null slot in what ClinicalDataExtractor.run returned is fatal for the
\* case: neither retrieval nor determination is invoked, and none of the
\* extraction records of that run enters the results bundle.
C21_NullSlotFatal ==
    /\ "ocr_ner_results" \in DOMAIN results =>
          \A t \in Tasks : results["ocr_ner_results"][t] = RecordSlot(ClassOf(t))
    /\ (\E i \in DOMAIN p_events :
           p_events[i].ev = "exception" /\ p_events[i].stage = "log_output") =>
          /\ "ocr_ner_results" \notin DOMAIN results
          /\ p_calls = <<>>
          /\ r_pc = "idle" /\ d_pc = "idle"
          /\ \A j \in DOMAIN p_events :
                p_events[j].ev = "start" =>
                   p_events[j].stage \in {"ingestion", "extraction"}
          /\ \A k \in DOMAIN stored : "ocr_ner_results" \notin DOMAIN stored[k]
    /\ (/\ p_pc = "extracting" /\ e_pc = "done"
        /\ \E t \in Tasks : e_result[t] = NoneSlot) =>
          (p_calls = <<>> /\ "ocr_ner_results" \notin DOMAIN results)
    /\ \A i \in DOMAIN p_calls :
          p_calls[i].clinical_info.kind = "record"

C21_Witness ==
    /\ p_pc = "done" /\ p_outcome = "returned"
    /\ \E i \in DOMAIN p_events :
          p_events[i].ev = "exception" /\ p_events[i].stage = "log_output"
    /\ DOMAIN results # {} /\ "ocr_ner_results" \notin DOMAIN results
    /\ Len(stored) = 1 /\ p_calls = <<>>

\* The run at hand raised before the determination stage began and has ended.
FailedBeforeDetermination ==
    /\ p_pc = "done"
    /\ \E i \in 1..Len(p_events) : p_events[i].ev = "exception"
    /\ \A i \in 1..Len(p_events) :
          ~(p_events[i].ev = "start" /\ p_events[i].stage = "determination")

\* Outputs only the determination stage produces.
DeterminationKeys == {"pa_determination_results", "summary_policy"}

\* C27: when run is executed again for a case an earlier run completed and
\* the later run fails before determination, neither the bundle the later run
\* persists nor the case's stored document carries a determination result or
\* a policy summary.
C27_BundleOfThisRunOnly ==
    (FailedBeforeDetermination /\ Len(stored) = 1) =>
        /\ DOMAIN stored[1] \cap DeterminationKeys = {}
        /\ \A d \in collection :
              d.caseId = self_caseId => DOMAIN d \cap DeterminationKeys = {}

\* A rerun for "case-A" raised during retrieval and its bundle was upserted.
C27_Case ==
    /\ FailedBeforeDetermination
    /\ Len(stored) = 1
    /\ self_caseId = "case-A"
    /\ \E i \in 1..Len(p_events) :
          p_events[i].ev = "exception" /\ p_events[i].stage = "retrieval"
    /\ "pa_determination_results" \in DOMAIN stored[1]

\* The entries of a list.
Entries(list) == {list[k] : k \in 1..Len(list)}

\* C28: once process_uploaded_files has returned, results["processed_images"]
\* lists the images of every file images were extracted from.
C28_ProcessedImagesOfEveryFile ==
    p_pc = "extract" =>
        \A i \in image_files :
            /\ "processed_images" \in DOMAIN results
            /\ i \in Entries(results["processed_images"])

\* Two scanned files were ingested; the list holds the second file's images.
C28_Case ==
    /\ p_pc = "extract"
    /\ uploaded_files = <<"scan", "scan">>
    /\ image_files = {1, 2}
    /\ results["processed_images"] = <<2>>

-----------------------------------------------------------------------------
(* Claims about CosmosDBMongoCoreManager and store_output (SpecDb) *)

\* C15: once store_output has persisted a case's bundle, read_document with
\* that case id returns a document whose stage outputs are exactly those of the
\* bundle stored last for it, whatever was upserted before for this or for
\* other case ids.
C15_ReadReturnsLastStored ==
    (db_pc = "read" /\ read_result # NoDocument) =>
        StageOutputs(read_result) = StageOutputs(last_stored[read_result.caseId])

\* The case of C15 in which the code departs from it: a bundle with a
\* determination was stored for a case, then one without; the document read
\* back still carries the determination of the earlier bundle.
C15_Case ==
    /\ db_pc = "read" /\ read_result # NoDocument
    /\ read_result.caseId = "case-A"
    /\ DOMAIN last_stored["case-A"] = {"caseId", "ocr_ner_results"}
    /\ "pa_determination_results" \in DOMAIN read_result
    /\ read_result["ocr_ner_results"] = last_stored["case-A"]["ocr_ner_results"]

-----------------------------------------------------------------------------
(* Claims about AzureOpenAIManager (SpecLlm) *)

\* C26: a call of the LLM client changes the conversation history it is given
\* only by appending: whatever the history and the system message, the history
\* as it was before the call is a prefix of the history after the call.
C26_HistoryAppendOnly ==
    llm_call.fn # "none" =>
        /\ Len(history_before) <= Len(conversation_history)
        /\ SubSeq(conversation_history, 1, Len(history_before)) = history_before

\* The case of C26 in which the code departs from it: the history begins with
\* another message than the system message of the call, which is inserted in
\* front of it.
C26_Case ==
    /\ llm_call = [fn |-> "generate_chat_response", system |-> "system_b",
                   answer |-> "json"]
    /\ history_before = <<Message("system", "system_a")>>
    /\ conversation_history =
          <<Message("system", "system_b"), Message("system", "system_a"),
            Message("user", "query"), Message("assistant", "query")>>

\* C29: a call of the LLM client that fails, returning None or the overflow
\* sentinel, leaves the conversation history it was given exactly as it was.
C29_FailedCallLeavesHistory ==
    llm_call.answer \in {"none", "overflow"} =>
        conversation_history = history_before

\* The case of C29 in which the code departs from it: the system message is
\* inserted before the request, and stays when the request fails.
C29_Case ==
    /\ llm_call = [fn |-> "generate_chat_response", system |-> "system_a",
                   answer |-> "none"]
    /\ history_before = <<>>
    /\ conversation_history = <<Message("system", "system_a")>>

-----------------------------------------------------------------------------
(* Claims about CaseManager.evaluate_similarity (SpecCase) *)

\* C30: evaluate_similarity reports pass = true only if every compared
\* field, the fields of the sub-dictionaries included, scored at least the
\* threshold.
C30_PassMeansEveryFieldPasses ==
    (c_pc = "evaluated" /\ pass_status) =>
        \A i \in 1..Len(detailed_comparison) :
            detailed_comparison[i].similarity_score >= threshold

\* The comparison process_case makes: both arguments hold a sub-dictionary
\* under every key, one nested name scored below the threshold and pass is
\* true.
C30_Case ==
    /\ c_pc = "evaluated"
    /\ \A k \in OuterKeys :
          expected[k].kind = "dict" /\ extracted[k].kind = "dict"
    /\ expected["patient_info"].fields["name"] = <<"a", "b">>
    /\ extracted["patient_info"].fields["name"] = <<"a">>
    /\ threshold = 95
    /\ similarity_scores["patient_info"].nested["name"] = 66
    /\ pass_status

====
